---- MODULE Spec2Model ----
(***************************************************************************)
(* GitBard command pipeline engine: the Stage / Pipeline contract of       *)
(* src/pipelines/base.py, the command registry of src/pipelines/registry.py*)
(* and the concrete stages of src/pipelines/stages.                        *)
(*                                                                         *)
(* Text is a sequence of tokens; a token stands for a fixed run of         *)
(* characters, so that startswith and substring are computed on the        *)
(* sequences the way Python computes them on the characters.  The token  *)
(* "<robot> " is the robot-face emoji and the blank after it, "<cross> "   *)
(* the cross-mark emoji and the blank after it, <bt> the backtick.         *)
(***************************************************************************)
EXTENDS Integers, Sequences, FiniteSets, TLC

(***************************************************************************)
(* Bounds of the model.                                                    *)
(***************************************************************************)
\* longest comment body a user types after an optional self-echo marker, in tokens
MaxNoteLen == 2
\* longest text handed to detect_command in the registry specification
MaxTextLen == 3
\* most get_pipeline_for_command calls in the registry specification
MaxCalls == 2
\* most pipeline runs
MaxRuns == 2

(***************************************************************************)
(* Python values.                                                          *)
(***************************************************************************)
\* None, for the optional string fields
None == "None"

\* None, for PipelineContext.gitlab_note_id
NoNoteId == 0

\* None, for StageResult.error
NoError == [type |-> "None", msg |-> <<>>]

\* None, for PipelineContext.code_snapshot
NoSnapshot == [unset |-> None]

\* None, for PipelineContext.agent_result
NoAgentResult == [content |-> <<>>, format |-> None]

\* the empty dict
EmptyDict == [k \in {} |-> None]

\* d[k] = v
Put(d, k, v) == [x \in (DOMAIN d) \cup {k} |-> IF x = k THEN v ELSE d[x]]

\* d.get(k, dflt)
Get(d, k, dflt) == IF k \in DOMAIN d THEN d[k] ELSE dflt

\* all sequences over S of length at most n
BoundedSeq(S, n) == UNION {[1..k -> S] : k \in 0..n}

\* s.startswith(p)
StartsWith(s, p) == /\ Len(p) <= Len(s)
                    /\ SubSeq(s, 1, Len(p)) = p

\* p in s
Contains(s, p) == \E i \in 1..(Len(s) - Len(p) + 1) : SubSeq(s, i, i + Len(p) - 1) = p

\* whitespace tokens
IsSpace(t) == t \in {" ", "\n"}

RECURSIVE LStrip(_)
LStrip(s) == IF s # <<>> /\ IsSpace(Head(s)) THEN LStrip(Tail(s)) ELSE s

RECURSIVE RStrip(_)
RStrip(s) == IF s # <<>> /\ IsSpace(s[Len(s)]) THEN RStrip(SubSeq(s, 1, Len(s) - 1)) ELSE s

\* s.strip()
Strip(s) == RStrip(LStrip(s))

RECURSIVE Replace(_, _, _)
\* s.replace(p, q), for a non-empty p
Replace(s, p, q) ==
    IF s = <<>> THEN s
    ELSE IF StartsWith(s, p) THEN q \o Replace(SubSeq(s, Len(p) + 1, Len(s)), p, q)
    ELSE <<Head(s)>> \o Replace(Tail(s), p, q)

(***************************************************************************)
(* Commands and the registry.                                              *)
(***************************************************************************)
\* a stage instance as constructed in a get_pipeline body: its class and
\* its constructor argument
StageOf(cls, arg) == [cls |-> cls, arg |-> arg]

ReviewStages == << StageOf("HookResolverStage", None),
                   StageOf("SnapshotResolverStage", None),
                   StageOf("ContextBuilderStage", None),
                   StageOf("AgentExecutorStage", "review"),
                   StageOf("NoteUpdaterStage", None) >>

\* AskStages with the workspace builder placed before the gate
AskStages_BuilderFirst ==
    << StageOf("ContextBuilderStage", None),
       StageOf("HookResolverStage", None),
       StageOf("SnapshotResolverStage", None),
       StageOf("AgentExecutorStage", "general"),
       StageOf("NoteUpdaterStage", None) >>

AskStages == << StageOf("HookResolverStage", None),
                StageOf("SnapshotResolverStage", None),
                StageOf("ContextBuilderStage", None),
                StageOf("AgentExecutorStage", "general"),
                StageOf("NoteUpdaterStage", None) >>

\* TestStages without the issue context fetcher
TestStages_NoFetcher ==
    << StageOf("HookResolverStage", None),
       StageOf("SnapshotResolverStage", None),
       StageOf("ContextBuilderStage", None),
       StageOf("OpencodeIntegrationStage", None),
       StageOf("NoteUpdaterStage", None) >>

TestStages == << StageOf("HookResolverStage", None),
                 StageOf("SnapshotResolverStage", None),
                 StageOf("ContextBuilderStage", None),
                 StageOf("IssueContextFetcherStage", None),
                 StageOf("OpencodeIntegrationStage", None),
                 StageOf("NoteUpdaterStage", None) >>

ReviewCommand == [name |-> "oc_review", trigger_pattern |-> <<"/oc_review">>,
                  stages |-> ReviewStages]

AskCommand == [name |-> "oc_ask", trigger_pattern |-> <<"/oc_ask">>,
               stages |-> AskStages]

TestCommand == [name |-> "oc_test", trigger_pattern |-> <<"/oc_test">>,
                stages |-> TestStages]

COMMANDS == <<ReviewCommand, AskCommand, TestCommand>>

NoCommand == [name |-> None, trigger_pattern |-> <<>>, stages |-> <<>>]

RECURSIVE FirstMatch(_, _, _)
\* the for loop of detect_command, from position i of the list
FirstMatch(cmds, text, i) ==
    IF i > Len(cmds) THEN NoCommand
    ELSE IF Contains(text, cmds[i].trigger_pattern) THEN cmds[i]
    ELSE FirstMatch(cmds, text, i + 1)

\* the position of the first occurrence of p in s, Len(s) + 1 when none
Find(s, p) ==
    IF Contains(s, p)
    THEN CHOOSE i \in 1..Len(s) :
            /\ SubSeq(s, i, i + Len(p) - 1) = p
            /\ \A j \in 1..(i - 1) : SubSeq(s, j, j + Len(p) - 1) # p
    ELSE Len(s) + 1

\* detect_command returning the command whose phrase comes first in the
\* text instead of the one registered first
detect_command_Earliest(cmds, text) ==
    LET hits == {i \in 1..Len(cmds) : Contains(text, cmds[i].trigger_pattern)}
    IN  IF hits = {} THEN NoCommand
        ELSE cmds[CHOOSE i \in hits :
                    \A j \in hits : Find(text, cmds[i].trigger_pattern)
                                     <= Find(text, cmds[j].trigger_pattern)]

detect_command(cmds, text) == FirstMatch(cmds, text, 1)

RECURSIVE FirstNamed(_, _, _)
\* the for loop of get_pipeline_for_command, from position i of the list
FirstNamed(cmds, command_name, i) ==
    IF i > Len(cmds) THEN NoCommand
    ELSE IF cmds[i].name = command_name THEN cmds[i]
    ELSE FirstNamed(cmds, command_name, i + 1)

(***************************************************************************)
(* Webhook payloads.  A payload is the parsed JSON document; a key the     *)
(* document lacks reads as None (or as the default the code passes to get).*)
(***************************************************************************)
\* tokens a user may type; the robot and the product name are typeable too
NoteTokens == {"<robot> ", "OpenCode", "/oc_review", "/oc_ask", "/oc_test", "hi"}

\* what hook_resolver.py tests the head of the note for
SelfMarker == <<"<robot> ", "OpenCode">>

\* the bodies of the events: any short text, also behind the marker
NoteBodies ==
    BoundedSeq(NoteTokens, MaxNoteLen)
    \cup {SelfMarker \o b : b \in BoundedSeq(NoteTokens, MaxNoteLen - 1)}

NoteableTypes == {"MergeRequest", "Issue", "Commit"}

\* project.git_http_url; an absent key reads as the empty text
GitUrl == <<"https://", "gitlab.com/test/repo.git">>

NotePayloads ==
    { [object_kind |-> "note", note |-> b, noteable_type |-> t,
       project_id |-> "1", git_http_url |-> u,
       mr_iid |-> IF t = "MergeRequest" THEN "42" ELSE None,
       issue_iid |-> IF t = "Issue" THEN "7" ELSE None,
       noteable_id |-> "99",
       head_sha |-> h,
       source_branch |-> IF t = "MergeRequest" THEN "feature" ELSE None,
       target_branch |-> IF t = "MergeRequest" THEN "main" ELSE None] :
      b \in NoteBodies, t \in NoteableTypes, u \in {<<>>, GitUrl},
      h \in {None, "abc123"} }

\* a merge-request event (test_hook_resolver_ignores_non_note): no comment
OtherPayloads ==
    { [object_kind |-> "merge_request", note |-> <<>>, noteable_type |-> t,
       project_id |-> "1", git_http_url |-> GitUrl,
       mr_iid |-> "42", issue_iid |-> None, noteable_id |-> None,
       head_sha |-> "abc123",
       source_branch |-> "feature", target_branch |-> "main"] :
      t \in {None, "MergeRequest"} }

\* a merge request has a head revision only when it is a merge request
WellFormed(p) == p.head_sha # None => p.noteable_type = "MergeRequest"

UserPayloads == {p \in NotePayloads \cup OtherPayloads : WellFormed(p)}

(***************************************************************************)
(* PipelineContext, StageResult, Stage.execute.                            *)
(***************************************************************************)
PipelineContext(payload) ==
    [webhook_payload |-> payload,
     command |-> None,
     code_snapshot |-> NoSnapshot,
     local_context_path |-> None,
     agent_result |-> NoAgentResult,
     gitlab_note_id |-> NoNoteId,
     metadata |-> EmptyDict]

\* StageResult(context=..., should_stop=...): error and success default
StageResult(context, should_stop) ==
    [context |-> context, should_stop |-> should_stop,
     error |-> NoError, success |-> TRUE]

\* an exception object; str(e) is its msg
Exc(type, msg) == [type |-> type, msg |-> msg]

Str(e) == e.msg

\* Raised without should_stop: the failure is reported but the pipeline is
\* not told to stop
Raised_NoStop(context, e) ==
    [context |-> context, should_stop |-> FALSE, error |-> e, success |-> FALSE]

\* Raised handing back a fresh context of the event instead of the object
\* the stage was given: what the stage wrote before raising is lost
Raised_FreshContext(context, e) ==
    [context |-> PipelineContext(context.webhook_payload), should_stop |-> TRUE,
     error |-> e, success |-> FALSE]

\* the except branch of Stage.execute: the context is the object passed in,
\* with whatever the stage wrote to it before raising
Raised(context, e) ==
    [context |-> context, should_stop |-> TRUE, error |-> e, success |-> FALSE]

\* what a stage hands back to the pipeline: its result, the external calls
\* it made in order, the comments it posted, and its file-system effects
Call(op, arg) == [op |-> op, arg |-> arg]

Outcome(res, calls, posts, mkdirs, writes) ==
    [res |-> res, calls |-> calls, posts |-> posts,
     mkdirs |-> mkdirs, writes |-> writes]

(***************************************************************************)
(* post_gitlab_note (src/app_old.py).                                      *)
(***************************************************************************)
\* can the request be sent at all: credentials present and a supported type
CanPost(pat, noteable_type) ==
    /\ pat # ""
    /\ noteable_type \in {"MergeRequest", "Issue"}

\* the possible returns: TRUE for the posted note's JSON, FALSE for None
PostReturns(pat, noteable_type) ==
    IF CanPost(pat, noteable_type) THEN {TRUE, FALSE} ELSE {FALSE}

\* the comment as it lands on the thread
Comment(project_id, noteable_type, noteable_iid, body) ==
    [project_id |-> project_id, noteable_type |-> noteable_type,
     noteable_iid |-> noteable_iid, body |-> body]

(***************************************************************************)
(* Stage A: HookResolverStage.                                             *)
(***************************************************************************)
AckHeader == <<"<robot> ", "OpenCode", " started working on <bt>">>

AckBody(trigger_pattern) == AckHeader \o trigger_pattern \o <<"<bt>...">>

get_noteable_iid(payload) ==
    IF payload.noteable_type = "MergeRequest" THEN payload.mr_iid
    ELSE IF payload.noteable_type = "Issue" THEN payload.issue_iid
    ELSE payload.noteable_id

\* IsOwnNote with == in place of startswith
IsOwnNote_Exact(note) == note = SelfMarker

\* note.startswith(the marker): the note is one the system posted
IsOwnNote(note) == StartsWith(note, SelfMarker)

\* HookResolver_execute with the assignments to the context made before the
\* test of the detected command: a rejected comment leaves its traces
HookResolver_execute_RecordFirst(context, cmds, pat, posted, new_id) ==
    LET payload == context.webhook_payload
        note == payload.note
        noteable_type == payload.noteable_type
        command == detect_command(cmds, note)
        md1 == Put(context.metadata, "noteable_type", noteable_type)
        md2 == Put(md1, "note_body", note)
        md3 == Put(md2, "trigger_pattern", command.trigger_pattern)
        c1 == [context EXCEPT !.command = command.name, !.metadata = md3]
        c2 == IF posted THEN [c1 EXCEPT !.gitlab_note_id = new_id] ELSE c1
        body == AckBody(command.trigger_pattern)
    IN  IF payload.object_kind # "note"
        THEN Outcome(StageResult(context, TRUE), <<>>, <<>>, {}, {})
        ELSE IF IsOwnNote(note)
        THEN Outcome(StageResult(context, TRUE), <<>>, <<>>, {}, {})
        ELSE IF command = NoCommand
        THEN Outcome(StageResult(c1, TRUE), <<Call("detect_command", None)>>, <<>>, {}, {})
        ELSE Outcome(StageResult(c2, FALSE),
                     <<Call("detect_command", None), Call("post_gitlab_note", "ack")>>,
                     IF posted
                     THEN <<Comment(payload.project_id, noteable_type,
                                    get_noteable_iid(payload), body)>>
                     ELSE <<>>,
                     {}, {})

\* _execute, given the collaborator's answer (posted) and the id the server
\* gives the new note
HookResolver_execute(context, cmds, pat, posted, new_id) ==
    LET payload == context.webhook_payload
        note == payload.note
        noteable_type == payload.noteable_type
        command == detect_command(cmds, note)
        md1 == Put(context.metadata, "noteable_type", noteable_type)
        md2 == Put(md1, "note_body", note)
        md3 == Put(md2, "trigger_pattern", command.trigger_pattern)
        c1 == [context EXCEPT !.command = command.name, !.metadata = md3]
        c2 == IF posted THEN [c1 EXCEPT !.gitlab_note_id = new_id] ELSE c1
        body == AckBody(command.trigger_pattern)
        sent == CanPost(pat, noteable_type)
    IN  IF payload.object_kind # "note"
        THEN Outcome(StageResult(context, TRUE), <<>>, <<>>, {}, {})
        ELSE IF IsOwnNote(note)
        THEN Outcome(StageResult(context, TRUE), <<>>, <<>>, {}, {})
        ELSE IF command = NoCommand
        THEN Outcome(StageResult(context, TRUE), <<Call("detect_command", None)>>, <<>>, {}, {})
        ELSE Outcome(StageResult(c2, FALSE),
                     <<Call("detect_command", None), Call("post_gitlab_note", "ack")>>,
                     IF posted
                     THEN <<Comment(payload.project_id, noteable_type,
                                    get_noteable_iid(payload), body)>>
                     ELSE <<>>,
                     {}, {})

HookResolverOutcomes(context, cmds, pat, new_id) ==
    { HookResolver_execute(context, cmds, pat, posted, new_id) :
        posted \in PostReturns(pat, context.webhook_payload.noteable_type) }

(***************************************************************************)
(* Stage B: SnapshotResolverStage.                                         *)
(***************************************************************************)
\* SnapshotResolver_execute that fills the snapshot only for merge requests
\* with a head revision, and leaves code_snapshot unset otherwise
SnapshotResolver_execute_OnlyKnown(context) ==
    LET payload == context.webhook_payload
        noteable_type == Get(context.metadata, "noteable_type", None)
        snapshot == [sha |-> payload.head_sha,
                     source_branch |-> payload.source_branch,
                     target_branch |-> payload.target_branch]
    IN  IF noteable_type = "MergeRequest" /\ payload.head_sha # None
        THEN Outcome(StageResult([context EXCEPT !.code_snapshot = snapshot], FALSE),
                     <<>>, <<>>, {}, {})
        ELSE Outcome(StageResult(context, FALSE), <<>>, <<>>, {}, {})

SnapshotResolver_execute(context) ==
    LET payload == context.webhook_payload
        noteable_type == Get(context.metadata, "noteable_type", None)
        snapshot ==
            IF noteable_type = "MergeRequest"
            THEN [sha |-> payload.head_sha,
                  source_branch |-> payload.source_branch,
                  target_branch |-> payload.target_branch]
            ELSE IF noteable_type = "Issue"
            THEN [sha |-> None, branch |-> "main"]
            ELSE EmptyDict
    IN  Outcome(StageResult([context EXCEPT !.code_snapshot = snapshot], FALSE),
                <<>>, <<>>, {}, {})

SnapshotResolverOutcomes(context) == {SnapshotResolver_execute(context)}

(***************************************************************************)
(* Stage C: ContextBuilderStage.                                           *)
(***************************************************************************)
\* the names tempfile.mkdtemp(prefix="opencode_") may return
TmpNames == {"/tmp/opencode_a", "/tmp/opencode_b"}

\* git_http_url.replace("https://", f"https://gitlab:{gitlab_pat}@")
AuthUrl(git_http_url, pat) ==
    Replace(git_http_url, <<"https://">>, <<"https://gitlab:", pat, "@">>)

\* str() of the CalledProcessError of a failed subprocess.run(check=True)
CalledProcessError(argv) ==
    Exc("CalledProcessError",
        <<"Command '[">> \o argv \o <<"]' returned non-zero exit status 128.">>)

\* ContextBuilder_execute running git checkout without check=True: a failed
\* checkout is not raised and the stage goes on with the default branch
ContextBuilder_execute_LenientCheckout(context, pat, temp_dir, clone_ok, checkout_ok) ==
    LET payload == context.webhook_payload
        c1 == [context EXCEPT !.local_context_path = temp_dir]
        git_http_url == payload.git_http_url
        auth_url == AuthUrl(git_http_url, pat)
        snap == context.code_snapshot
        sha == Get(snap, "sha", None)
        branch == Get(snap, "branch", None)
        ref == IF sha # None THEN sha ELSE branch
        mk == <<Call("mkdtemp", temp_dir)>>
        clone == <<Call("git clone", temp_dir)>>
        checkout == <<Call("git checkout", ref)>>
    IN  IF temp_dir = None
        THEN Outcome(Raised(context, Exc("OSError", <<"mkdtemp failed">>)),
                     mk, <<>>, {}, {})
        ELSE IF git_http_url = <<>>
        THEN Outcome(Raised(c1, Exc("ValueError", <<"No git_http_url in project">>)),
                     mk, <<>>, {temp_dir}, {})
        ELSE IF ~clone_ok
        THEN Outcome(Raised(c1, CalledProcessError(
                                    <<"'git', 'clone', '">> \o auth_url
                                    \o <<"', '", temp_dir, "'">>)),
                     mk \o clone, <<>>, {temp_dir}, {})
        ELSE IF snap = NoSnapshot
        THEN Outcome(Raised(c1, Exc("AttributeError",
                                    <<"'NoneType' object has no attribute 'get'">>)),
                     mk \o clone, <<>>, {temp_dir}, {})
        ELSE IF ref = None
        THEN Outcome(StageResult(c1, FALSE), mk \o clone, <<>>, {temp_dir}, {})
        ELSE Outcome(StageResult(c1, FALSE), mk \o clone \o checkout, <<>>,
                     {temp_dir}, {})

\* ContextBuilder_execute testing the branch before the commit id: a snapshot
\* with both is checked out at its branch
ContextBuilder_execute_BranchFirst(context, pat, temp_dir, clone_ok, checkout_ok) ==
    LET payload == context.webhook_payload
        c1 == [context EXCEPT !.local_context_path = temp_dir]
        git_http_url == payload.git_http_url
        auth_url == AuthUrl(git_http_url, pat)
        snap == context.code_snapshot
        sha == Get(snap, "sha", None)
        branch == Get(snap, "branch", None)
        ref == IF branch # None THEN branch ELSE sha
        mk == <<Call("mkdtemp", temp_dir)>>
        clone == <<Call("git clone", temp_dir)>>
        checkout == <<Call("git checkout", ref)>>
    IN  IF temp_dir = None
        THEN Outcome(Raised(context, Exc("OSError", <<"mkdtemp failed">>)),
                     mk, <<>>, {}, {})
        ELSE IF git_http_url = <<>>
        THEN Outcome(Raised(c1, Exc("ValueError", <<"No git_http_url in project">>)),
                     mk, <<>>, {temp_dir}, {})
        ELSE IF ~clone_ok
        THEN Outcome(Raised(c1, CalledProcessError(
                                    <<"'git', 'clone', '">> \o auth_url
                                    \o <<"', '", temp_dir, "'">>)),
                     mk \o clone, <<>>, {temp_dir}, {})
        ELSE IF snap = NoSnapshot
        THEN Outcome(Raised(c1, Exc("AttributeError",
                                    <<"'NoneType' object has no attribute 'get'">>)),
                     mk \o clone, <<>>, {temp_dir}, {})
        ELSE IF ref = None
        THEN Outcome(StageResult(c1, FALSE), mk \o clone, <<>>, {temp_dir}, {})
        ELSE IF ~checkout_ok
        THEN Outcome(Raised(c1, CalledProcessError(
                                    <<"'git', 'checkout', '", ref, "'">>)),
                     mk \o clone \o checkout, <<>>, {temp_dir}, {})
        ELSE Outcome(StageResult(c1, FALSE), mk \o clone \o checkout, <<>>,
                     {temp_dir}, {})

\* _execute, given what mkdtemp returned (None: it raised) and whether the
\* clone and the checkout succeed
ContextBuilder_execute(context, pat, temp_dir, clone_ok, checkout_ok) ==
    LET payload == context.webhook_payload
        c1 == [context EXCEPT !.local_context_path = temp_dir]
        git_http_url == payload.git_http_url
        auth_url == AuthUrl(git_http_url, pat)
        snap == context.code_snapshot
        sha == Get(snap, "sha", None)
        branch == Get(snap, "branch", None)
        ref == IF sha # None THEN sha ELSE branch
        mk == <<Call("mkdtemp", temp_dir)>>
        clone == <<Call("git clone", temp_dir)>>
        checkout == <<Call("git checkout", ref)>>
    IN  IF temp_dir = None
        THEN Outcome(Raised(context, Exc("OSError", <<"mkdtemp failed">>)),
                     mk, <<>>, {}, {})
        ELSE IF git_http_url = <<>>
        THEN Outcome(Raised(c1, Exc("ValueError", <<"No git_http_url in project">>)),
                     mk, <<>>, {temp_dir}, {})
        ELSE IF ~clone_ok
        THEN Outcome(Raised(c1, CalledProcessError(
                                    <<"'git', 'clone', '">> \o auth_url
                                    \o <<"', '", temp_dir, "'">>)),
                     mk \o clone, <<>>, {temp_dir}, {})
        ELSE IF snap = NoSnapshot
        THEN Outcome(Raised(c1, Exc("AttributeError",
                                    <<"'NoneType' object has no attribute 'get'">>)),
                     mk \o clone, <<>>, {temp_dir}, {})
        ELSE IF ref = None
        THEN Outcome(StageResult(c1, FALSE), mk \o clone, <<>>, {temp_dir}, {})
        ELSE IF ~checkout_ok
        THEN Outcome(Raised(c1, CalledProcessError(
                                    <<"'git', 'checkout', '", ref, "'">>)),
                     mk \o clone \o checkout, <<>>, {temp_dir}, {})
        ELSE Outcome(StageResult(c1, FALSE), mk \o clone \o checkout, <<>>,
                     {temp_dir}, {})

\* ContextBuilderOutcomes with a fixed directory name in place of mkdtemp:
\* every run builds its workspace at the same path
ContextBuilderOutcomes_FixedName(context, pat, dirs) ==
    { ContextBuilder_execute(context, pat, "/tmp/opencode_a", c, k) :
        c \in BOOLEAN, k \in BOOLEAN }

\* mkdtemp returns a name no existing directory has, or raises
ContextBuilderOutcomes(context, pat, dirs) ==
    { ContextBuilder_execute(context, pat, d, c, k) :
        d \in (TmpNames \ dirs) \cup {None}, c \in BOOLEAN, k \in BOOLEAN }

(***************************************************************************)
(* Stage D: AgentExecutorStage.                                            *)
(***************************************************************************)
build_prompt(agent_type, context) ==
    IF agent_type = "review"
    THEN <<"Review the code in ", context.local_context_path>>
    ELSE IF agent_type = "general"
    THEN <<"Answer questions about the code in ", context.local_context_path>>
    ELSE <<"Analyze the code">>

\* AgentResult(content=..., format="markdown")
AgentResult(content) == [content |-> content, format |-> "markdown"]

AgentExecutor_execute(context, agent_type) ==
    LET prompt == build_prompt(agent_type, context)
        content == <<"Agent result for ", agent_type, ": ">> \o prompt \o <<"...">>
    IN  Outcome(StageResult([context EXCEPT !.agent_result = AgentResult(content)],
                            FALSE),
                <<>>, <<>>, {}, {})

AgentExecutorOutcomes(context, agent_type) ==
    {AgentExecutor_execute(context, agent_type)}

(***************************************************************************)
(* IssueContextFetcherStage.                                               *)
(***************************************************************************)
IssueFile == "gitlab_issue_content.md"

\* what the two GETs and the decoding of their bodies can do
FetchAnswers == {"ok", "request_exception", "invalid_json"}

IssueContextFetcher_execute(context, pat, answer) ==
    LET payload == context.webhook_payload
        repo_dir == context.local_context_path
        project_id == payload.project_id
        issue_iid == IF payload.issue_iid # None THEN payload.issue_iid
                     ELSE payload.noteable_id
        get == <<Call("requests.get", "issue")>>
        issue_path == <<repo_dir, IssueFile>>
        c1 == [context EXCEPT
                 !.metadata = Put(context.metadata, "issue_context_path", issue_path)]
    IN  IF Get(context.metadata, "noteable_type", None) # "Issue"
        THEN Outcome(StageResult(context, FALSE), <<>>, <<>>, {}, {})
        ELSE IF repo_dir = None
        THEN Outcome(Raised(context,
                            Exc("ValueError",
                                <<"No local_context_path available for issue context">>)),
                     <<>>, <<>>, {}, {})
        ELSE IF project_id = None \/ issue_iid = None
        THEN Outcome(StageResult(context, FALSE), <<>>, <<>>, {}, {})
        ELSE IF pat = ""
        THEN Outcome(StageResult(context, FALSE), <<>>, <<>>, {}, {})
        ELSE IF answer = "request_exception"
        THEN Outcome(StageResult(context, FALSE), get, <<>>, {}, {})
        ELSE IF answer = "invalid_json"
        THEN Outcome(Raised(context, Exc("JSONDecodeError", <<"Expecting value">>)),
                     get, <<>>, {}, {})
        ELSE Outcome(StageResult(c1, FALSE), get, <<>>, {}, {issue_path})

IssueContextFetcherOutcomes(context, pat) ==
    { IssueContextFetcher_execute(context, pat, a) : a \in FetchAnswers }

(***************************************************************************)
(* OpencodeIntegrationStage.                                               *)
(***************************************************************************)
\* a line of the agent's stdout: a JSON object with its "type" and the
\* part.text it carries, a JSON value that is no object, or no JSON at all
EventLine(kind, type, text) == [kind |-> kind, type |-> type, text |-> text]

EventLines ==
    { EventLine("object", "text", t) : t \in {<<>>, <<"hi">>, <<" ">>, <<"/oc_test">>} }
    \cup { EventLine("object", "step_finish", <<"hi">>),
           EventLine("scalar", None, <<>>),
           EventLine("invalid", None, <<>>) }

TextEvent(t) == EventLine("object", "text", t)

\* the output streams of the runs
Stdouts ==
    { <<>>,
      <<TextEvent(<<"hi">>)>>,
      <<TextEvent(<<"/oc_test">>)>>,
      <<TextEvent(<<"hi">>), EventLine("object", "step_finish", <<"hi">>),
        TextEvent(<<" ">>)>>,
      <<EventLine("invalid", None, <<>>), TextEvent(<<>>)>>,
      <<TextEvent(<<"hi">>), EventLine("scalar", None, <<>>)>> }

Stderrs == {<<>>, <<"boom", " ">>}

\* note_body.replace(trigger, "").strip() or the placeholder
extract_question(context) ==
    LET note_body == Get(context.metadata, "note_body", <<>>)
        trigger == Get(context.metadata, "trigger_pattern", <<>>)
        question == Strip(IF trigger = <<>> THEN note_body
                          ELSE Replace(note_body, trigger, <<>>))
    IN  IF question # <<>> THEN question ELSE <<"No additional question provided.">>

\* does json.loads(line) followed by event.get raise
LineRaises(line) == line.kind = "scalar"

RECURSIVE JoinText_AllEvents(_)
\* JoinText taking the part.text of every event, whatever its type
JoinText_AllEvents(lines) ==
    IF lines = <<>> THEN <<>>
    ELSE (IF Head(lines).kind = "object" THEN Head(lines).text ELSE <<>>)
         \o JoinText_AllEvents(Tail(lines))

RECURSIVE JoinText(_)
\* the chunks of _extract_text_events, joined
JoinText(lines) ==
    IF lines = <<>> THEN <<>>
    ELSE (IF Head(lines).kind = "object" /\ Head(lines).type = "text"
          THEN Head(lines).text ELSE <<>>) \o JoinText(Tail(lines))

extract_text_events(lines) == Strip(JoinText(lines))

NoResponse == <<"No response generated.">>

\* OpencodeIntegration_execute writing the event stream before it tests the
\* exit status
OpencodeIntegration_execute_WritesFirst(context, returncode, stdout, stderr) ==
    LET repo_dir == context.local_context_path
        question == extract_question(context)
        run == <<Call("opencode run", repo_dir)>>
        error_msg == IF Strip(stderr) # <<>> THEN Strip(stderr)
                     ELSE <<"Unknown opencode error">>
        events_path == <<repo_dir, "opencode_events.jsonl">>
        reply_path == <<repo_dir, "opencode_reply.md">>
        extracted == extract_text_events(stdout)
        content == IF extracted # <<>> THEN extracted ELSE NoResponse
        c1 == [context EXCEPT !.agent_result = AgentResult(Strip(content))]
    IN  IF repo_dir = None
        THEN Outcome(Raised(context,
                            Exc("ValueError",
                                <<"No local_context_path available for opencode">>)),
                     <<>>, <<>>, {}, {})
        ELSE IF returncode # 0
        THEN Outcome(Raised(context,
                            Exc("RuntimeError",
                                <<"opencode run failed: ">> \o error_msg)),
                     run, <<>>, {}, {events_path})
        ELSE IF \E i \in 1..Len(stdout) : LineRaises(stdout[i])
        THEN Outcome(Raised(context,
                            Exc("AttributeError",
                                <<"object has no attribute 'get'">>)),
                     run, <<>>, {}, {events_path})
        ELSE Outcome(StageResult(c1, FALSE), run, <<>>, {},
                     {events_path, reply_path})

OpencodeIntegration_execute(context, returncode, stdout, stderr) ==
    LET repo_dir == context.local_context_path
        question == extract_question(context)
        run == <<Call("opencode run", repo_dir)>>
        error_msg == IF Strip(stderr) # <<>> THEN Strip(stderr)
                     ELSE <<"Unknown opencode error">>
        events_path == <<repo_dir, "opencode_events.jsonl">>
        reply_path == <<repo_dir, "opencode_reply.md">>
        extracted == extract_text_events(stdout)
        content == IF extracted # <<>> THEN extracted ELSE NoResponse
        c1 == [context EXCEPT !.agent_result = AgentResult(Strip(content))]
    IN  IF repo_dir = None
        THEN Outcome(Raised(context,
                            Exc("ValueError",
                                <<"No local_context_path available for opencode">>)),
                     <<>>, <<>>, {}, {})
        ELSE IF returncode # 0
        THEN Outcome(Raised(context,
                            Exc("RuntimeError",
                                <<"opencode run failed: ">> \o error_msg)),
                     run, <<>>, {}, {})
        ELSE IF \E i \in 1..Len(stdout) : LineRaises(stdout[i])
        THEN Outcome(Raised(context,
                            Exc("AttributeError",
                                <<"object has no attribute 'get'">>)),
                     run, <<>>, {}, {events_path})
        ELSE Outcome(StageResult(c1, FALSE), run, <<>>, {},
                     {events_path, reply_path})

OpencodeIntegrationOutcomes(context) ==
    { OpencodeIntegration_execute(context, 1, <<>>, e) : e \in Stderrs }
    \cup { OpencodeIntegration_execute(context, 0, o, <<>>) : o \in Stdouts }

(***************************************************************************)
(* NoteUpdaterStage.                                                       *)
(***************************************************************************)
\* NoteUpdater_get_noteable_iid reading the comment's noteable_id for every
\* thread type
NoteUpdater_get_noteable_iid_IdOnly(payload) == payload.noteable_id

\* NoteUpdaterStage._get_noteable_iid
NoteUpdater_get_noteable_iid(payload) ==
    IF payload.noteable_type = "MergeRequest" THEN payload.mr_iid
    ELSE IF payload.noteable_type = "Issue" THEN payload.issue_iid
    ELSE payload.noteable_id

ErrorHeader == <<"<cross> ", "**", "OpenCode", " Error**\n\nPipeline failed: ">>

ErrorBody(error_msg) == ErrorHeader \o error_msg

ResultHeader == <<"<robot> ", "**", "OpenCode", " Results**\n\n">>

ResultBody(content) == ResultHeader \o content

NoResults == <<"No results generated">>

\* NoteUpdater_execute that edits the acknowledgement comment in place and
\* so needs its id: without one it raises
NoteUpdater_execute_NeedsId(context, posted) ==
    LET payload == context.webhook_payload
        project_id == payload.project_id
        noteable_type == Get(context.metadata, "noteable_type", None)
        noteable_iid == get_noteable_iid(payload)
        result == context.agent_result
        content == IF result # NoAgentResult THEN result.content ELSE NoResults
    IN  IF context.gitlab_note_id = NoNoteId
        THEN Outcome(Raised(context, Exc("TypeError", <<"note id is None">>)),
                     <<>>, <<>>, {}, {})
        ELSE Outcome(StageResult(context, FALSE),
                     <<Call("post_gitlab_note", "result")>>,
                     IF posted
                     THEN <<Comment(project_id, noteable_type, noteable_iid,
                                    ResultBody(content))>>
                     ELSE <<>>,
                     {}, {})

\* NoteUpdater_execute that raises when the collaborator returns None
NoteUpdater_execute_PostRequired(context, posted) ==
    LET payload == context.webhook_payload
        project_id == payload.project_id
        noteable_type == Get(context.metadata, "noteable_type", None)
        noteable_iid == get_noteable_iid(payload)
        result == context.agent_result
        content == IF result # NoAgentResult THEN result.content ELSE NoResults
    IN  IF posted
        THEN Outcome(StageResult(context, FALSE),
                     <<Call("post_gitlab_note", "result")>>,
                     <<Comment(project_id, noteable_type, noteable_iid,
                               ResultBody(content))>>,
                     {}, {})
        ELSE Outcome(Raised(context, Exc("RuntimeError", <<"Failed to post note">>)),
                     <<Call("post_gitlab_note", "result")>>, <<>>, {}, {})

\* NoteUpdater_execute that posts the error notice and then, falling
\* through, the results as well
NoteUpdater_execute_FallsThrough(context, posted) ==
    LET payload == context.webhook_payload
        project_id == payload.project_id
        noteable_type == Get(context.metadata, "noteable_type", None)
        noteable_iid == get_noteable_iid(payload)
        result == context.agent_result
        content == IF result # NoAgentResult THEN result.content ELSE NoResults
        one == Comment(project_id, noteable_type, noteable_iid, ResultBody(content))
    IN  Outcome(StageResult(context, FALSE),
                <<Call("post_gitlab_note", "result"), Call("post_gitlab_note", "result")>>,
                IF posted THEN <<one, one>> ELSE <<>>,
                {}, {})

NoteUpdater_execute(context, posted) ==
    LET payload == context.webhook_payload
        project_id == payload.project_id
        noteable_type == Get(context.metadata, "noteable_type", None)
        noteable_iid == NoteUpdater_get_noteable_iid(payload)
        pipeline_error == Get(context.metadata, "pipeline_error", <<>>)
        result == context.agent_result
        content == IF result # NoAgentResult THEN result.content ELSE NoResults
        failed == pipeline_error # <<>>
        body == IF failed THEN ErrorBody(pipeline_error) ELSE ResultBody(content)
    IN  Outcome(StageResult(context, FALSE),
                <<Call("post_gitlab_note", IF failed THEN "error" ELSE "result")>>,
                IF posted
                THEN <<Comment(project_id, noteable_type, noteable_iid, body)>>
                ELSE <<>>,
                {}, {})

NoteUpdaterOutcomes(context, pat) ==
    { NoteUpdater_execute(context, posted) :
        posted \in PostReturns(pat, Get(context.metadata, "noteable_type", None)) }

(***************************************************************************)
(* Pipeline objects.  Every constructor call takes the next object ids.    *)
(***************************************************************************)
NoPipeline == [id |-> 0, name |-> None, stages |-> <<>>]

\* get_pipeline handing out one Pipeline built at import time: the same
\* objects on every call
get_pipeline_Shared(command, obj) ==
    [id |-> 1, name |-> command.name,
     stages |-> [i \in 1..Len(command.stages) |->
                   [cls |-> command.stages[i].cls, arg |-> command.stages[i].arg,
                    id |-> 1 + i]]]

\* Pipeline(name=..., stages=[...]) as built in a get_pipeline body: the
\* stage instances take the ids obj + 1 ..., the Pipeline takes obj
get_pipeline(command, obj) ==
    [id |-> obj, name |-> command.name,
     stages |-> [i \in 1..Len(command.stages) |->
                   [cls |-> command.stages[i].cls, arg |-> command.stages[i].arg,
                    id |-> obj + i]]]

get_pipeline_for_command(cmds, command_name, obj) ==
    LET command == FirstNamed(cmds, command_name, 1)
    IN  IF command = NoCommand THEN NoPipeline ELSE get_pipeline(command, obj)

\* the ids a pipeline object and its stages occupy
ObjectsOf(p) == IF p = NoPipeline THEN {}
                ELSE {p.id} \cup {p.stages[i].id : i \in 1..Len(p.stages)}

\* the registry after a call of detect_command or get_pipeline_for_command:
\* neither assigns to COMMANDS nor to a command
RegistryAfterCall(cmds) == cmds

RegisteredNames(cmds) == {cmds[i].name : i \in 1..Len(cmds)}

\* stage.execute(context) for a stage object of a pipeline: what the stage
\* can hand back, over the answers of its collaborators
StageOutcomes(stage, context, cmds, pat, dirs, new_id) ==
    IF stage.cls = "HookResolverStage"
    THEN HookResolverOutcomes(context, cmds, pat, new_id)
    ELSE IF stage.cls = "SnapshotResolverStage"
    THEN SnapshotResolverOutcomes(context)
    ELSE IF stage.cls = "ContextBuilderStage"
    THEN ContextBuilderOutcomes(context, pat, dirs)
    ELSE IF stage.cls = "AgentExecutorStage"
    THEN AgentExecutorOutcomes(context, stage.arg)
    ELSE IF stage.cls = "IssueContextFetcherStage"
    THEN IssueContextFetcherOutcomes(context, pat)
    ELSE IF stage.cls = "OpencodeIntegrationStage"
    THEN OpencodeIntegrationOutcomes(context)
    ELSE NoteUpdaterOutcomes(context, pat)

(***************************************************************************)
(* Pipeline.execute.                                                       *)
(***************************************************************************)
\* LoopBody with `if result.should_stop` read as `if result.error`: a stop
\* without an error does not leave the loop
LoopBody_ContinueOnQuietStop(res, last) ==
    LET context == res.context
        marked == [context EXCEPT
                     !.metadata = Put(context.metadata, "pipeline_error",
                                      Str(res.error))]
    IN  IF res.error # NoError
        THEN [context |-> marked, returns |-> TRUE,
              result |-> [res EXCEPT !.context = marked]]
        ELSE IF last
        THEN [context |-> context, returns |-> TRUE,
              result |-> StageResult(context, FALSE)]
        ELSE [context |-> context, returns |-> FALSE, result |-> res]

\* LoopBody without the assignment to metadata["pipeline_error"]
LoopBody_NoRecord(res, last) ==
    LET context == res.context
    IN  IF res.should_stop
        THEN [context |-> context, returns |-> TRUE, result |-> res]
        ELSE IF last
        THEN [context |-> context, returns |-> TRUE,
              result |-> StageResult(context, FALSE)]
        ELSE [context |-> context, returns |-> FALSE, result |-> res]

\* LoopBody without the `if result.error` test: every stop is recorded
LoopBody_AlwaysRecord(res, last) ==
    LET context == res.context
        marked == [context EXCEPT
                     !.metadata = Put(context.metadata, "pipeline_error",
                                      Str(res.error))]
    IN  IF res.should_stop
        THEN [context |-> marked, returns |-> TRUE,
              result |-> [res EXCEPT !.context = marked]]
        ELSE IF last
        THEN [context |-> context, returns |-> TRUE,
              result |-> StageResult(context, FALSE)]
        ELSE [context |-> context, returns |-> FALSE, result |-> res]

\* LoopBody that records an error and goes on to the next stage: execute
\* returns only after the last stage of the list
LoopBody_RunsToEnd(res, last) ==
    LET context == res.context
        marked == [context EXCEPT
                     !.metadata = Put(context.metadata, "pipeline_error",
                                      Str(res.error))]
        c == IF res.error # NoError THEN marked ELSE context
    IN  IF last
        THEN [context |-> c, returns |-> TRUE, result |-> [res EXCEPT !.context = c]]
        ELSE [context |-> c, returns |-> FALSE, result |-> res]

\* the body of the for loop after stage.execute returned res; last tells
\* whether the stage was the last of the list.  returns: does execute
\* leave the loop and return result
LoopBody(res, last) ==
    LET context == res.context
        marked == [context EXCEPT
                     !.metadata = Put(context.metadata, "pipeline_error",
                                      Str(res.error))]
    IN  IF res.should_stop
        THEN IF res.error # NoError
             THEN [context |-> marked, returns |-> TRUE,
                   result |-> [res EXCEPT !.context = marked]]
             ELSE [context |-> context, returns |-> TRUE, result |-> res]
        ELSE IF last
        THEN [context |-> context, returns |-> TRUE,
              result |-> StageResult(context, FALSE)]
        ELSE [context |-> context, returns |-> FALSE, result |-> res]

\* CleanupPaths of a cleanup placed after the loop instead of in a finally
\* block: a run that returns from inside the loop skips it
CleanupPaths_AfterLoopOnly(context) ==
    IF context.local_context_path # None /\ "pipeline_error" \notin DOMAIN context.metadata
    THEN {context.local_context_path} ELSE {}

\* the directories the finally block removes
CleanupPaths(context) ==
    IF context.local_context_path # None THEN {context.local_context_path} ELSE {}

\* logger.error(f"Stage {cls} failed: {e}", exc_info=True) of Stage.execute
StageFailedLog(cls, e) == <<"Stage ", cls, " failed: ">> \o Str(e)

\* logger.error(f"Pipeline {name} stopped with error: {error}") of Pipeline.execute
PipelineStoppedLog(name, e) == <<"Pipeline ", name, " stopped with error: ">> \o Str(e)

(***************************************************************************)
(* State.                                                                  *)
(***************************************************************************)
VARIABLES
    registry,    \* the module-level list COMMANDS of registry.py
    GITLAB_PAT,  \* the credential of the process environment
    nextObj,     \* the id the next constructed object takes
    made,        \* the pipelines get_pipeline_for_command has returned, in order
    text,        \* registry specification: the text given to detect_command
    detected,    \* registry specification: what detect_command returned
    resolved,    \* registry specification: the last get_pipeline_for_command call
    active,      \* the runs the ingress may start
    pc,          \* per run: "idle", "running", "finally", "returned"
    pipeline,    \* per run: the Pipeline object executing
    idx,         \* per run: position of the for loop in pipeline.stages
    ctx,         \* per run: the local variable context of Pipeline.execute
    result,      \* per run: what Pipeline.execute returns
    trace,       \* per run: the stage executions so far, in order
    fs,          \* the directories that exist
    files,       \* the files that exist, as <<directory, name>>
    notes        \* the comments on the thread, in the order they were posted

vars == <<registry, GITLAB_PAT, nextObj, made, text, detected, resolved, active,
          pc, pipeline, idx, ctx, result, trace, fs, files, notes>>

RunIds == 1..MaxRuns

NoResult == [returned |-> FALSE]

NoContext == [unset |-> TRUE]

NotDetected == [called |-> FALSE]

NotResolved == [called |-> FALSE]

Secret == "glpat-SECRET"

InitCommon ==
    /\ registry = COMMANDS
    /\ nextObj = 1
    /\ made = <<>>
    /\ detected = NotDetected
    /\ resolved = NotResolved
    /\ pc = [r \in RunIds |-> "idle"]
    /\ pipeline = [r \in RunIds |-> NoPipeline]
    /\ idx = [r \in RunIds |-> 0]
    /\ ctx = [r \in RunIds |-> NoContext]
    /\ result = [r \in RunIds |-> NoResult]
    /\ trace = [r \in RunIds |-> <<>>]
    /\ fs = {}
    /\ files = {}
    /\ notes = <<>>

Init ==
    /\ InitCommon
    /\ GITLAB_PAT \in {"", Secret}
    /\ text = <<>>
    /\ active = {1}

regVars == <<text, detected, resolved>>

(***************************************************************************)
(* The runs.                                                               *)
(***************************************************************************)
\* the ingress hands an event to the pipeline of a registered command
StartRun(r, payload, command_name) ==
    LET p == get_pipeline_for_command(registry, command_name, nextObj)
    IN  /\ p # NoPipeline
        /\ pipeline' = [pipeline EXCEPT ![r] = p]
        /\ made' = Append(made, p)
        /\ nextObj' = nextObj + Cardinality(ObjectsOf(p))
        /\ registry' = RegistryAfterCall(registry)
        /\ ctx' = [ctx EXCEPT ![r] = PipelineContext(payload)]
        /\ pc' = [pc EXCEPT ![r] = "running"]
        /\ idx' = [idx EXCEPT ![r] = 1]
        /\ UNCHANGED <<GITLAB_PAT, regVars, active, result, trace, fs, files, notes>>

\* an event arrives
Webhook(r) ==
    /\ pc[r] = "idle"
    /\ r \in active
    /\ \E payload \in UserPayloads, name \in RegisteredNames(registry) :
          StartRun(r, payload, name)

CurrentStage(r) == pipeline[r].stages[idx[r]]

AtStage(r, cls) ==
    /\ pc[r] = "running"
    /\ CurrentStage(r).cls = cls

RECURSIVE Posted(_, _, _)
\* the comments of a stage as they land on the thread: numbered, and
\* tagged with the run that posted them
Posted(posts, r, first_id) ==
    IF posts = <<>> THEN <<>>
    ELSE <<[run |-> r, id |-> first_id, project_id |-> Head(posts).project_id,
            noteable_type |-> Head(posts).noteable_type,
            noteable_iid |-> Head(posts).noteable_iid,
            body |-> Head(posts).body]>>
         \o Posted(Tail(posts), r, first_id + 1)

\* AfterStage with one context object for all runs: the context a stage
\* returns becomes the context of every run
AfterStage_SharedContext(r, out) ==
    LET step == LoopBody(out.res, idx[r] = Len(pipeline[r].stages))
    IN  /\ trace' = [trace EXCEPT ![r] =
                        Append(@, [i |-> idx[r], stage |-> CurrentStage(r),
                                   ctx_in |-> ctx[r], res |-> out.res,
                                   calls |-> out.calls, posts |-> out.posts])]
        /\ ctx' = [q \in RunIds |-> step.context]
        /\ notes' = notes \o Posted(out.posts, r, Len(notes) + 1)
        /\ fs' = fs \cup out.mkdirs
        /\ files' = files \cup out.writes
        /\ IF step.returns
           THEN /\ result' = [result EXCEPT ![r] = step.result]
                /\ pc' = [pc EXCEPT ![r] = "finally"]
                /\ idx' = idx
           ELSE /\ result' = result
                /\ pc' = pc
                /\ idx' = [idx EXCEPT ![r] = idx[r] + 1]
        /\ UNCHANGED <<registry, GITLAB_PAT, nextObj, made, regVars, active, pipeline>>

\* stage.execute(context) returned out.res: the rest of the loop body
AfterStage(r, out) ==
    LET step == LoopBody(out.res, idx[r] = Len(pipeline[r].stages))
    IN  /\ trace' = [trace EXCEPT ![r] =
                        Append(@, [i |-> idx[r], stage |-> CurrentStage(r),
                                   ctx_in |-> ctx[r], res |-> out.res,
                                   calls |-> out.calls, posts |-> out.posts])]
        /\ ctx' = [ctx EXCEPT ![r] = step.context]
        /\ notes' = notes \o Posted(out.posts, r, Len(notes) + 1)
        /\ fs' = fs \cup out.mkdirs
        /\ files' = files \cup out.writes
        /\ IF step.returns
           THEN /\ result' = [result EXCEPT ![r] = step.result]
                /\ pc' = [pc EXCEPT ![r] = "finally"]
                /\ idx' = idx
           ELSE /\ result' = result
                /\ pc' = pc
                /\ idx' = [idx EXCEPT ![r] = idx[r] + 1]
        /\ UNCHANGED <<registry, GITLAB_PAT, nextObj, made, regVars, active, pipeline>>

HookResolverStage(r) ==
    /\ AtStage(r, "HookResolverStage")
    /\ \E out \in HookResolverOutcomes(ctx[r], registry, GITLAB_PAT, Len(notes) + 1) :
          AfterStage(r, out)

SnapshotResolverStage(r) ==
    /\ AtStage(r, "SnapshotResolverStage")
    /\ \E out \in SnapshotResolverOutcomes(ctx[r]) : AfterStage(r, out)

ContextBuilderStage(r) ==
    /\ AtStage(r, "ContextBuilderStage")
    /\ \E out \in ContextBuilderOutcomes(ctx[r], GITLAB_PAT, fs) : AfterStage(r, out)

AgentExecutorStage(r) ==
    /\ AtStage(r, "AgentExecutorStage")
    /\ \E out \in AgentExecutorOutcomes(ctx[r], CurrentStage(r).arg) : AfterStage(r, out)

IssueContextFetcherStage(r) ==
    /\ AtStage(r, "IssueContextFetcherStage")
    /\ \E out \in IssueContextFetcherOutcomes(ctx[r], GITLAB_PAT) : AfterStage(r, out)

OpencodeIntegrationStage(r) ==
    /\ AtStage(r, "OpencodeIntegrationStage")
    /\ \E out \in OpencodeIntegrationOutcomes(ctx[r]) : AfterStage(r, out)

\* NoteUpdaterStage waiting for the runs triggered earlier: the results
\* are published in the order of the triggers
NoteUpdaterStage_InTriggerOrder(r) ==
    /\ AtStage(r, "NoteUpdaterStage")
    /\ \A q \in 1..(r - 1) : pc[q] \in {"finally", "returned"}
    /\ \E out \in NoteUpdaterOutcomes(ctx[r], GITLAB_PAT) : AfterStage(r, out)

NoteUpdaterStage(r) ==
    /\ AtStage(r, "NoteUpdaterStage")
    /\ \E out \in NoteUpdaterOutcomes(ctx[r], GITLAB_PAT) : AfterStage(r, out)

\* Finally without the return: the directories are removed and execute
\* does not hand its result back
Finally_NeverReturns(r) ==
    /\ pc[r] = "finally"
    /\ fs' = fs \ CleanupPaths(ctx[r])
    /\ files' = {f \in files : f[1] \notin CleanupPaths(ctx[r])}
    /\ UNCHANGED <<registry, GITLAB_PAT, nextObj, made, regVars, active,
                   pipeline, idx, ctx, result, trace, notes, pc>>

\* the finally block of Pipeline.execute, then the return
Finally(r) ==
    /\ pc[r] = "finally"
    /\ fs' = fs \ CleanupPaths(ctx[r])
    /\ files' = {f \in files : f[1] \notin CleanupPaths(ctx[r])}
    /\ pc' = [pc EXCEPT ![r] = "returned"]
    /\ UNCHANGED <<registry, GITLAB_PAT, nextObj, made, regVars, active,
                   pipeline, idx, ctx, result, trace, notes>>

Next ==
    \E r \in RunIds :
        \/ Webhook(r)
        \/ HookResolverStage(r)
        \/ SnapshotResolverStage(r)
        \/ ContextBuilderStage(r)
        \/ AgentExecutorStage(r)
        \/ IssueContextFetcherStage(r)
        \/ OpencodeIntegrationStage(r)
        \/ NoteUpdaterStage(r)
        \/ Finally(r)

Spec == Init /\ [][Next]_vars

\* a step of Pipeline.execute in run r: the stage at hand, or the finally
\* block and the return
RunStep(r) ==
    \/ HookResolverStage(r)
    \/ SnapshotResolverStage(r)
    \/ ContextBuilderStage(r)
    \/ AgentExecutorStage(r)
    \/ IssueContextFetcherStage(r)
    \/ OpencodeIntegrationStage(r)
    \/ NoteUpdaterStage(r)
    \/ Finally(r)

\* the events of the runs whose termination is followed: a body of at most
\* one token, or the marker of the service's own comments alone or before
\* a trigger
LivePayloads ==
    { p \in UserPayloads :
        \/ Len(p.note) <= 1
        \/ p.note = SelfMarker
        \/ p.note = SelfMarker \o <<"/oc_test">> }

WebhookLive(r) ==
    /\ pc[r] = "idle"
    /\ r \in active
    /\ \E payload \in LivePayloads, name \in RegisteredNames(registry) :
          StartRun(r, payload, name)

NextLive == \E r \in RunIds : WebhookLive(r) \/ RunStep(r)

\* Pipeline.execute is synchronous: once called it goes on with its next
\* step as soon as the external call at hand has returned, and every
\* external call returns.  No event is required to arrive.
SpecLive == Init /\ [][NextLive]_vars /\ \A r \in RunIds : WF_vars(RunStep(r))

(***************************************************************************)
(* The registry on its own: detect_command on a text, and calls of         *)
(* get_pipeline_for_command.                                               *)
(***************************************************************************)
Texts == BoundedSeq(NoteTokens, MaxTextLen)

\* the names asked for: the registered ones, an unknown one, a trigger phrase
AskedNames == {"oc_review", "oc_ask", "oc_test", "oc_deploy", "/oc_review"}

InitRegistry ==
    /\ InitCommon
    /\ GITLAB_PAT = ""
    /\ text \in Texts
    /\ active = {}

DetectCall ==
    /\ detected = NotDetected
    /\ detected' = [called |-> TRUE, ret |-> detect_command(registry, text)]
    /\ registry' = RegistryAfterCall(registry)
    /\ UNCHANGED <<GITLAB_PAT, nextObj, made, text, resolved, active,
                   pc, pipeline, idx, ctx, result, trace, fs, files, notes>>

ResolveCall ==
    /\ Len(made) < MaxCalls
    /\ \E name \in AskedNames :
          LET p == get_pipeline_for_command(registry, name, nextObj)
          IN  /\ resolved' = [called |-> TRUE, name |-> name, ret |-> p]
              /\ made' = IF p = NoPipeline THEN made ELSE Append(made, p)
              /\ nextObj' = nextObj + Cardinality(ObjectsOf(p))
              /\ registry' = RegistryAfterCall(registry)
    /\ UNCHANGED <<GITLAB_PAT, text, detected, active,
                   pc, pipeline, idx, ctx, result, trace, fs, files, notes>>

NextRegistry == DetectCall \/ ResolveCall

SpecRegistry == InitRegistry /\ [][NextRegistry]_vars

(***************************************************************************)
(* Concurrent runs: every run is started on an event of its own, a comment *)
(* asking for a review on a merge request of its own, and the steps of the *)
(* runs interleave stage by stage.                                         *)
(***************************************************************************)
\* the merge request the event of run r comments on
ThreadIids == <<"41", "42", "43", "44">>

ThreadOf(r) == ThreadIids[r]

\* the event of run r
ConcurrentPayload(r) ==
    [object_kind |-> "note", note |-> <<"/oc_review">>,
     noteable_type |-> "MergeRequest",
     project_id |-> "1", git_http_url |-> GitUrl,
     mr_iid |-> ThreadOf(r), issue_iid |-> None, noteable_id |-> "99",
     head_sha |-> "abc123",
     source_branch |-> "feature", target_branch |-> "main"]

InitConcurrent ==
    /\ InitCommon
    /\ GITLAB_PAT = Secret
    /\ text = <<>>
    /\ active = RunIds

\* the event of run r arrives and is handed to the pipeline of the command
\* its comment names; the runs are numbered in the order their events arrive
WebhookConcurrent(r) ==
    /\ pc[r] = "idle"
    /\ r \in active
    /\ \A q \in 1..(r - 1) : pc[q] # "idle"
    /\ StartRun(r, ConcurrentPayload(r),
                detect_command(registry, ConcurrentPayload(r).note).name)

NextConcurrent ==
    \E r \in RunIds :
        \/ WebhookConcurrent(r)
        \/ HookResolverStage(r)
        \/ SnapshotResolverStage(r)
        \/ ContextBuilderStage(r)
        \/ AgentExecutorStage(r)
        \/ NoteUpdaterStage(r)
        \/ Finally(r)

SpecConcurrent == InitConcurrent /\ [][NextConcurrent]_vars

\* the events of the runs arrive on one thread: every run is started on a
\* comment asking for a review on the same merge request
WebhookSameThread(r) ==
    /\ pc[r] = "idle"
    /\ r \in active
    /\ \A q \in 1..(r - 1) : pc[q] # "idle"
    /\ StartRun(r, ConcurrentPayload(1),
                detect_command(registry, ConcurrentPayload(1).note).name)

NextSameThread ==
    \E r \in RunIds :
        \/ WebhookSameThread(r)
        \/ HookResolverStage(r)
        \/ SnapshotResolverStage(r)
        \/ ContextBuilderStage(r)
        \/ AgentExecutorStage(r)
        \/ NoteUpdaterStage(r)
        \/ Finally(r)

SpecSameThread == InitConcurrent /\ [][NextSameThread]_vars

(***************************************************************************)
(* Properties of Pipeline.execute.                                         *)
(***************************************************************************)
Returned(r) == pc[r] = "returned"

\* the k-th stage execution of run r
Exec(r, k) == trace[r][k]

\* the run had a stage whose result carries an error
ErrorIn(r) == \E k \in 1..Len(trace[r]) : Exec(r, k).res.error # NoError

\* the external calls of the run, in order
RECURSIVE CallsFrom(_, _)
CallsFrom(r, k) ==
    IF k > Len(trace[r]) THEN <<>> ELSE Exec(r, k).calls \o CallsFrom(r, k + 1)

CallsOf(r) == CallsFrom(r, 1)

\* the directories the run's mkdtemp calls created
WorkspacesOf(r) ==
    LET calls == CallsOf(r)
    IN  {calls[j].arg : j \in {i \in 1..Len(calls) :
                                 /\ calls[i].op = "mkdtemp"
                                 /\ calls[i].arg # None}}

\* C1: when execute has returned, on every exit path, it has returned a
\* result and neither the directory the context's local_context_path names
\* nor any directory the run created exists; a run that created no
\* workspace has no path to clean and still returns its result.
C1_WorkspaceRemoved ==
    \A r \in RunIds :
        Returned(r) =>
            /\ result[r] # NoResult
            /\ result[r].context = ctx[r]
            /\ CleanupPaths(result[r].context) \cap fs = {}
            /\ WorkspacesOf(r) \cap fs = {}
            /\ WorkspacesOf(r) = CleanupPaths(result[r].context)

\* a run halted on a stage error after its workspace was created
C1_Witness ==
    \E r \in RunIds :
        /\ Returned(r)
        /\ result[r].error # NoError
        /\ WorkspacesOf(r) # {}
        /\ WorkspacesOf(r) \cap fs = {}

\* C2: the stages run in declaration order, each at most once: the k-th
\* execution of a run is of the k-th stage of its pipeline, it starts from
\* the context the execution before it returned, and only after that one
\* returned with should_stop false; nothing runs after a should_stop.
C2_StagesInOrder ==
    \A r \in RunIds :
        /\ Len(trace[r]) <= Len(pipeline[r].stages)
        /\ \A k \in 1..Len(trace[r]) :
              /\ Exec(r, k).i = k
              /\ Exec(r, k).stage = pipeline[r].stages[k]
              /\ k > 1 => /\ ~Exec(r, k - 1).res.should_stop
                          /\ Exec(r, k).ctx_in = Exec(r, k - 1).res.context
        /\ pc[r] = "running" => idx[r] = Len(trace[r]) + 1

\* a run that stopped at its third stage, with stages left unexecuted
C2_Witness ==
    \E r \in RunIds :
        /\ Returned(r)
        /\ Len(trace[r]) = 3
        /\ Exec(r, 3).res.should_stop
        /\ Len(pipeline[r].stages) > 3

\* C3: if a stage raised (its result carries an error), execute's result has
\* success false and that error, and the side-channel of the context holds
\* the text of that error under pipeline_error, once the loop has ended.
C3_ErrorRecorded ==
    \A r \in RunIds :
        \A k \in 1..Len(trace[r]) :
            (Exec(r, k).res.error # NoError /\ pc[r] \in {"finally", "returned"}) =>
                /\ result[r].success = FALSE
                /\ result[r].error = Exec(r, k).res.error
                /\ "pipeline_error" \in DOMAIN ctx[r].metadata
                /\ ctx[r].metadata["pipeline_error"] = Str(Exec(r, k).res.error)
                /\ result[r].context = ctx[r]

\* a run that returned after a stage raised
C3_Witness ==
    \E r \in RunIds : Returned(r) /\ ErrorIn(r) /\ result[r].success = FALSE

\* C4: when a stage returns should_stop with no error, execute returns a
\* result with success true and no error, records no pipeline_error, and
\* that stage is the last one executed.
C4_EarlyExitIsSuccess ==
    \A r \in RunIds :
        \A k \in 1..Len(trace[r]) :
            (Exec(r, k).res.should_stop /\ Exec(r, k).res.error = NoError) =>
                /\ k = Len(trace[r])
                /\ pc[r] \in {"finally", "returned"}
                /\ result[r].success = TRUE
                /\ result[r].error = NoError
                /\ "pipeline_error" \notin DOMAIN ctx[r].metadata
                /\ "pipeline_error" \notin DOMAIN result[r].context.metadata

\* a run the gate stopped, with four or five stages left unexecuted
C4_Witness ==
    \E r \in RunIds :
        /\ Returned(r)
        /\ Len(trace[r]) = 1
        /\ Exec(r, 1).res.should_stop
        /\ Exec(r, 1).res.error = NoError
        /\ result[r].success = TRUE
        /\ Len(pipeline[r].stages) > 1

(***************************************************************************)
(* Properties of the comments a run posts.                                 *)
(***************************************************************************)
\* the comments run r posted, in thread order
NotesOf(r) == SelectSeq(notes, LAMBDA n : n.run = r)

KindOf(body) ==
    IF StartsWith(body, AckHeader) THEN "ack"
    ELSE IF StartsWith(body, ResultHeader) THEN "result"
    ELSE IF StartsWith(body, ErrorHeader) THEN "failure"
    ELSE "other"

KindsOf(r) == [k \in 1..Len(NotesOf(r)) |-> KindOf(NotesOf(r)[k].body)]

\* the executions of NoteUpdaterStage in run r that posted, or tried to
\* post, the failure comment
FailureReports(r) ==
    {k \in 1..Len(trace[r]) :
        /\ Exec(r, k).stage.cls = "NoteUpdaterStage"
        /\ Exec(r, k).calls = <<Call("post_gitlab_note", "error")>>}

\* C5: when a stage after the gate fails, NoteUpdaterStage consumes the
\* recorded pipeline error exactly once before the run ends: it runs once
\* and asks the comment collaborator for one failure comment.
C5_FailureReported ==
    \A r \in RunIds :
        (Returned(r) /\ ErrorIn(r) /\ Len(trace[r]) > 1) =>
            Cardinality(FailureReports(r)) = 1

\* C6: the comments of a run that has returned are none at all, or an
\* acknowledgement then a result, or an acknowledgement then a failure.
C6_CommentSequence ==
    \A r \in RunIds :
        Returned(r) =>
            KindsOf(r) \in {<<>>, <<"ack", "result">>, <<"ack", "failure">>}

\* the gate's executions on a comment event whose body begins with the marker
EchoGated(r, k) ==
    /\ Exec(r, k).stage.cls = "HookResolverStage"
    /\ Exec(r, k).ctx_in.webhook_payload.object_kind = "note"
    /\ StartsWith(Exec(r, k).ctx_in.webhook_payload.note, SelfMarker)

\* C7: on a comment event whose body begins with the self-echo marker the
\* gate returns should_stop with no error, whatever follows the marker,
\* having made no call (no detection, no post) and leaving the context
\* as it was; the run posts nothing.
C7_MarkerAlwaysStops ==
    \A r \in RunIds :
        \A k \in 1..Len(trace[r]) :
            EchoGated(r, k) =>
                /\ Exec(r, k).res.should_stop
                /\ Exec(r, k).res.error = NoError
                /\ Exec(r, k).res.success
                /\ Exec(r, k).res.context = Exec(r, k).ctx_in
                /\ Exec(r, k).calls = <<>>
                /\ NotesOf(r) = <<>>

\* the gate has stopped an event whose body is the marker and then a
\* registered trigger phrase
C7_Witness ==
    \E r \in RunIds :
        /\ Len(trace[r]) = 1
        /\ EchoGated(r, 1)
        /\ \E i \in 1..Len(COMMANDS) :
              Contains(Exec(r, 1).ctx_in.webhook_payload.note,
                       COMMANDS[i].trigger_pattern)
        /\ Exec(r, 1).res.should_stop

\* the event the hosting service sends for a comment the system posted: the
\* event of the run that posted it, with the comment as its note
EchoPayload(n) == [ctx[n.run].webhook_payload EXCEPT !.note = n.body]

\* the gate stage, run on the payload, stops whatever the collaborator does
GateStopsOn(payload) ==
    \A out \in HookResolverOutcomes(PipelineContext(payload), registry,
                                    GITLAB_PAT, Len(notes) + 1) :
        out.res.should_stop

\* C8: every comment the system has posted, delivered back as a comment
\* event, is stopped by the gate.
C8_OwnCommentsStopped ==
    \A k \in 1..Len(notes) : GateStopsOn(EchoPayload(notes[k]))

(***************************************************************************)
(* Properties of the registry.                                             *)
(***************************************************************************)
\* the registration order and the phrases, as the claim names them
RegistrationOrder == <<"oc_review", "oc_ask", "oc_test">>

PhraseOf(name) ==
    IF name = "oc_review" THEN <<"/oc_review">>
    ELSE IF name = "oc_ask" THEN <<"/oc_ask">>
    ELSE <<"/oc_test">>

\* p occurs in s as a run of consecutive tokens
Occurs(p, s) == \E i \in 1..Len(s), j \in 1..Len(s) : SubSeq(s, i, j) = p

Occurring(s) == {i \in 1..Len(RegistrationOrder) : Occurs(PhraseOf(RegistrationOrder[i]), s)}

\* C9: detect_command returns a command exactly when a registered phrase
\* occurs in the text, and then the first in registration order of those
\* that occur, wherever they stand in the text.
C9_DetectFirstRegistered ==
    detected # NotDetected =>
        IF Occurring(text) = {}
        THEN detected.ret = NoCommand
        ELSE /\ detected.ret # NoCommand
             /\ \E i \in Occurring(text) :
                   /\ \A j \in Occurring(text) : i <= j
                   /\ detected.ret.name = RegistrationOrder[i]
                   /\ detected.ret.trigger_pattern = PhraseOf(RegistrationOrder[i])

\* a text in which a later-registered phrase stands before the phrase of
\* the command returned
C9_Witness ==
    /\ detected # NotDetected
    /\ detected.ret # NoCommand
    /\ \E i \in Occurring(text) :
          /\ RegistrationOrder[i] # detected.ret.name
          /\ Find(text, PhraseOf(RegistrationOrder[i]))
               < Find(text, detected.ret.trigger_pattern)

\* C10: get_pipeline_for_command returns None exactly for the names that
\* are not registered; for a registered name it returns a Pipeline of that
\* name whose Pipeline and Stage objects no earlier call has returned; and
\* the registry stays as it was initialised under detect and resolve.
C10_ResolveFresh ==
    /\ registry = COMMANDS
    /\ resolved # NotResolved =>
          /\ resolved.ret = NoPipeline <=>
                resolved.name \notin {"oc_review", "oc_ask", "oc_test"}
          /\ resolved.ret # NoPipeline =>
                /\ resolved.ret.name = resolved.name
                /\ resolved.ret = made[Len(made)]
    /\ \A i \in 1..Len(made) :
          /\ Cardinality(ObjectsOf(made[i])) = Len(made[i].stages) + 1
          /\ \A j \in 1..Len(made) :
                i # j => ObjectsOf(made[i]) \cap ObjectsOf(made[j]) = {}

\* the same registered name resolved twice, and a detection made
C10_Witness ==
    /\ Len(made) = 2
    /\ made[1].name = made[2].name
    /\ made[1] # made[2]
    /\ detected # NotDetected
    /\ resolved # NotResolved

(***************************************************************************)
(* Properties of the stages.                                               *)
(***************************************************************************)
\* the gate's executions on an event it must reject: no comment event, or
\* a comment in which no registered phrase occurs
GateRejects(r, k) ==
    /\ Exec(r, k).stage.cls = "HookResolverStage"
    /\ \/ Exec(r, k).ctx_in.webhook_payload.object_kind # "note"
       \/ Occurring(Exec(r, k).ctx_in.webhook_payload.note) = {}

\* C11: on an event that is no comment event, or whose comment holds no
\* registered phrase, the gate returns should_stop with success and no
\* error and hands back the context as it got it (command unset, side-channel
\* and correlation id untouched); it asks for no comment; the run posts
\* nothing, creates no directory, writes no file and returns success.
C11_RejectionHasNoEffect ==
    \A r \in RunIds :
        \A k \in 1..Len(trace[r]) :
            GateRejects(r, k) =>
                /\ Exec(r, k).res.should_stop
                /\ Exec(r, k).res.error = NoError
                /\ Exec(r, k).res.success
                /\ Exec(r, k).res.context = Exec(r, k).ctx_in
                /\ Exec(r, k).res.context.command = None
                /\ Exec(r, k).res.context.metadata = EmptyDict
                /\ Exec(r, k).res.context.gitlab_note_id = NoNoteId
                /\ LET calls == CallsOf(r)
                   IN  \A j \in 1..Len(calls) :
                          calls[j].op \notin {"post_gitlab_note", "mkdtemp"}
                /\ NotesOf(r) = <<>>
                /\ WorkspacesOf(r) = {}
                /\ fs = {} /\ files = {}
                /\ k = Len(trace[r])
                /\ pc[r] \in {"finally", "returned"}
                /\ result[r].success /\ result[r].error = NoError

\* a run on a comment that holds no registered phrase and does not begin
\* with the marker has returned
C11_Witness ==
    \E r \in RunIds :
        /\ Returned(r)
        /\ GateRejects(r, 1)
        /\ ctx[r].webhook_payload.object_kind = "note"
        /\ ctx[r].webhook_payload.note # <<>>
        /\ ~StartsWith(ctx[r].webhook_payload.note, SelfMarker)
        /\ Exec(r, 1).calls = <<Call("detect_command", None)>>

\* the executions of the stage of class cls in run r
ExecsOf(r, cls) == {k \in 1..Len(trace[r]) : Exec(r, k).stage.cls = cls}

\* C12: SnapshotResolverStage never stops the pipeline and never fails; on
\* a merge-request thread the snapshot's sha is the head revision of the
\* event, on an issue thread the snapshot is sha none and branch main, and
\* on any other thread the snapshot is the empty descriptor; in every case
\* code_snapshot is set, and nothing else of the context changes.
C12_SnapshotResolved ==
    \A r \in RunIds :
        \A k \in ExecsOf(r, "SnapshotResolverStage") :
            LET payload == Exec(r, k).ctx_in.webhook_payload
                out == Exec(r, k).res.context
            IN  /\ ~Exec(r, k).res.should_stop
                /\ Exec(r, k).res.success
                /\ Exec(r, k).res.error = NoError
                /\ out.code_snapshot # NoSnapshot
                /\ out = [Exec(r, k).ctx_in EXCEPT !.code_snapshot = out.code_snapshot]
                /\ payload.noteable_type = "MergeRequest" =>
                      /\ "sha" \in DOMAIN out.code_snapshot
                      /\ out.code_snapshot["sha"] = payload.head_sha
                /\ payload.noteable_type = "Issue" =>
                      out.code_snapshot = [sha |-> None, branch |-> "main"]
                /\ payload.noteable_type \notin {"MergeRequest", "Issue"} =>
                      out.code_snapshot = EmptyDict

\* the resolver has run on a merge request with a head revision
C12_Witness ==
    \E r \in RunIds :
        \E k \in ExecsOf(r, "SnapshotResolverStage") :
            /\ Exec(r, k).ctx_in.webhook_payload.noteable_type = "MergeRequest"
            /\ Exec(r, k).ctx_in.webhook_payload.head_sha = "abc123"
            /\ Exec(r, k).res.context.code_snapshot["sha"] = "abc123"

(***************************************************************************)
(* Properties of concurrent runs.                                          *)
(***************************************************************************)
\* run r is executing and its context names a workspace
Holding(r) ==
    /\ pc[r] \in {"running", "finally"}
    /\ ctx[r].local_context_path # None

HeldBy(r) == IF Holding(r) THEN {ctx[r].local_context_path} ELSE {}

\* no two executing runs name the same workspace, and the directories that
\* exist are exactly the workspaces of the executing runs
WorkspacesExclusive ==
    /\ \A r1 \in RunIds, r2 \in RunIds :
          r1 # r2 => HeldBy(r1) \cap HeldBy(r2) = {}
    /\ fs = UNION {HeldBy(r) : r \in RunIds}
    /\ \A r \in RunIds : HeldBy(r) \subseteq WorkspacesOf(r)

\* a step removes a directory only as the cleanup of the run that created
\* and names it; that cleanup removes the run's workspace and leaves the
\* workspaces of the other runs in place
RemovedByOwner ==
    /\ \A p \in fs \ fs' :
          \E r \in RunIds :
              /\ pc[r] = "finally" /\ pc'[r] = "returned"
              /\ HeldBy(r) = {p}
              /\ p \in WorkspacesOf(r)
    /\ \A r \in RunIds :
          (pc[r] = "finally" /\ pc'[r] = "returned") =>
              /\ HeldBy(r) \cap fs' = {}
              /\ HeldBy(r) \subseteq fs
              /\ \A q \in RunIds \ {r} : HeldBy(q) \subseteq fs'

\* C13: under every interleaving of the runs no two runs hold the same
\* workspace path; a workspace is removed once, by the cleanup of the run
\* that created it, so that a returned run leaves no directory behind; and
\* no cleanup removes a workspace of another run that is still executing.
C13_WorkspaceOwnership == []WorkspacesExclusive /\ [][RemovedByOwner]_vars

\* one run has returned and removed its workspace while another run, whose
\* workspace was created before that cleanup, still holds its own
C13_Witness ==
    \E r1 \in RunIds, r2 \in RunIds :
        /\ r1 # r2
        /\ Returned(r1)
        /\ WorkspacesOf(r1) # {}
        /\ pc[r2] = "running"
        /\ HeldBy(r2) # {}
        /\ HeldBy(r2) \cap WorkspacesOf(r1) = {}
        /\ HeldBy(r2) \subseteq fs

\* what the stage can hand back when the run is the only one there is:
\* the registry as loaded, and any answer of the collaborators (any set of
\* existing directories, any id the server gives a new comment)
AloneOutcomes(stage, context) ==
    IF stage.cls = "HookResolverStage"
    THEN UNION { StageOutcomes(stage, context, COMMANDS, GITLAB_PAT, {}, id) :
                   id \in 1..(Len(notes) + 1) }
    ELSE IF stage.cls = "ContextBuilderStage"
    THEN UNION { StageOutcomes(stage, context, COMMANDS, GITLAB_PAT, dirs, 1) :
                   dirs \in SUBSET TmpNames }
    ELSE StageOutcomes(stage, context, COMMANDS, GITLAB_PAT, {}, 1)

\* the comments the stage executions of run r posted, in order
RECURSIVE PostsFrom(_, _)
PostsFrom(r, k) ==
    IF k > Len(trace[r]) THEN <<>> ELSE Exec(r, k).posts \o PostsFrom(r, k + 1)

\* a comment of the thread without the bookkeeping of the thread
Bare(n) == Comment(n.project_id, n.noteable_type, n.noteable_iid, n.body)

\* the last stage execution of run r, put through the loop body
LastStep(r) ==
    LoopBody(Exec(r, Len(trace[r])).res, Len(trace[r]) = Len(pipeline[r].stages))

\* the k-th stage execution of run r is one the stage gives alone on the
\* context it was given
AsAlone(r, k) ==
    \E dirs \in SUBSET TmpNames, id \in 1..(Len(notes) + 1) :
        \E out \in StageOutcomes(Exec(r, k).stage, Exec(r, k).ctx_in,
                                 COMMANDS, GITLAB_PAT, dirs, id) :
            /\ out.res = Exec(r, k).res
            /\ out.calls = Exec(r, k).calls
            /\ out.posts = Exec(r, k).posts

\* run r is what its own event and the answers of its collaborators make
\* it; the stage executions are recorded as they happen and never rewritten,
\* so each is examined in the states where it is the latest of its run
RunsAsAlone(r) ==
    /\ \A k \in 1..Len(trace[r]) :
          /\ Exec(r, k).stage = pipeline[r].stages[k]
          /\ Exec(r, k).ctx_in =
                IF k = 1 THEN PipelineContext(ConcurrentPayload(r))
                ELSE Exec(r, k - 1).res.context
    /\ trace[r] # <<>> => AsAlone(r, Len(trace[r]))
    /\ ctx[r] = IF trace[r] = <<>> THEN PipelineContext(ConcurrentPayload(r))
                ELSE LastStep(r).context
    /\ pc[r] \in {"finally", "returned"} =>
          /\ LastStep(r).returns
          /\ result[r] = LastStep(r).result
    /\ pc[r] = "running" => result[r] = NoResult
    /\ LET mine == NotesOf(r)
       IN  /\ [k \in 1..Len(mine) |-> Bare(mine[k])] = PostsFrom(r, 1)
           /\ \A k \in 1..Len(mine) : mine[k].noteable_iid = ThreadOf(r)

\* C14: under every interleaving, each run is determined by its own event
\* and the answers of its collaborators as if it ran alone: every stage
\* result is one the stage gives on the run's own context, the context and
\* the returned result follow from the run's own stage results, its
\* comments are the ones its own stages posted, on its own thread; the
\* runs have Pipeline and Stage objects of their own, and the registry
\* stays as loaded.
C14_RunsIndependent ==
    /\ registry = COMMANDS
    /\ \A r \in RunIds : pc[r] # "idle" => RunsAsAlone(r)
    /\ \A r1 \in RunIds, r2 \in RunIds :
          (r1 # r2 /\ pc[r1] # "idle" /\ pc[r2] # "idle") =>
              ObjectsOf(pipeline[r1]) \cap ObjectsOf(pipeline[r2]) = {}

\* two runs have returned, each with its acknowledgement and its result
\* posted, the comments of the one landing between those of the other
C14_Witness ==
    \E r1 \in RunIds, r2 \in RunIds :
        /\ r1 # r2
        /\ Returned(r1) /\ Returned(r2)
        /\ result[r1].success /\ result[r2].success
        /\ Len(notes) = 4
        /\ notes[1].run = r1 /\ notes[2].run = r2
        /\ notes[3].run = r1 /\ notes[4].run = r2

(***************************************************************************)
(* Properties of the comment collaborator's failures.                      *)
(***************************************************************************)
\* the gate of run r asked for the acknowledgement and the collaborator
\* returned None
AckFailed(r) ==
    /\ trace[r] # <<>>
    /\ Exec(r, 1).stage.cls = "HookResolverStage"
    /\ Exec(r, 1).calls = <<Call("detect_command", None), Call("post_gitlab_note", "ack")>>
    /\ Exec(r, 1).posts = <<>>

\* the context with a correlation id present
WithId(context) == [context EXCEPT !.gitlab_note_id = 1]

\* a stage outcome with the correlation id of its context blanked
Unid(out) == [out EXCEPT !.res.context.gitlab_note_id = NoNoteId]

\* the stage run r is about to execute can do on its context exactly what
\* it can do on the same context with a correlation id present
SameWithId(r) ==
    { Unid(o) : o \in AloneOutcomes(CurrentStage(r), ctx[r]) }
    = { Unid(o) : o \in AloneOutcomes(CurrentStage(r), WithId(ctx[r])) }

\* C15: when the collaborator returns None for the acknowledgement, the
\* gate returns should_stop false with success and no error and leaves
\* gitlab_note_id unset; the run goes on to the next stage, the id stays
\* unset, and every later stage gives on the context exactly the outcomes
\* it gives on the same context with an id present.
C15_AckFailureHarmless ==
    \A r \in RunIds :
        AckFailed(r) =>
            /\ ~Exec(r, 1).res.should_stop
            /\ Exec(r, 1).res.success
            /\ Exec(r, 1).res.error = NoError
            /\ Exec(r, 1).res.context.gitlab_note_id = NoNoteId
            /\ Exec(r, 1).res.context.command # None
            /\ ctx[r].gitlab_note_id = NoNoteId
            /\ pc[r] = "running" => (idx[r] > 1 /\ SameWithId(r))
            /\ pc[r] \in {"finally", "returned"} => Len(trace[r]) > 1

\* a run whose acknowledgement could not be posted has executed all its
\* stages and posted its result
C15_Witness ==
    \E r \in RunIds :
        /\ Returned(r)
        /\ AckFailed(r)
        /\ Len(trace[r]) = Len(pipeline[r].stages)
        /\ result[r].success
        /\ KindsOf(r) = <<"result">>

\* C16: whenever NoteUpdaterStage runs it asks the collaborator for one
\* comment and, posted or not, returns should_stop false with success, no
\* error and the context as it got it; the run then returns success, with
\* no pipeline error recorded.
C16_PublicationBestEffort ==
    \A r \in RunIds :
        \A k \in ExecsOf(r, "NoteUpdaterStage") :
            /\ Len(Exec(r, k).calls) = 1
            /\ Exec(r, k).calls[1].op = "post_gitlab_note"
            /\ Len(Exec(r, k).posts) <= 1
            /\ ~Exec(r, k).res.should_stop
            /\ Exec(r, k).res.success
            /\ Exec(r, k).res.error = NoError
            /\ Exec(r, k).res.context = Exec(r, k).ctx_in
            /\ k = Len(pipeline[r].stages)
            /\ \A j \in 1..(k - 1) : ~Exec(r, j).res.should_stop /\ Exec(r, j).res.success
            /\ pc[r] \in {"finally", "returned"}
            /\ result[r] = StageResult(Exec(r, k).ctx_in, FALSE)
            /\ "pipeline_error" \notin DOMAIN ctx[r].metadata

\* a run with the credential configured whose result comment the
\* collaborator failed to post has returned
C16_Witness ==
    \E r \in RunIds :
        \E k \in ExecsOf(r, "NoteUpdaterStage") :
            /\ Returned(r)
            /\ GITLAB_PAT # ""
            /\ Exec(r, k).ctx_in.webhook_payload.noteable_type = "MergeRequest"
            /\ Exec(r, k).posts = <<>>
            /\ result[r].success

(***************************************************************************)
(* Properties of the issue context fetcher and the workspace builder.      *)
(***************************************************************************)
\* C17: IssueContextFetcherStage never fails and never stops the pipeline:
\* every execution returns should_stop false with success and no error; it
\* adds issue_context_path to the side-channel only on an issue thread
\* after the fetch, and otherwise hands back the context as it got it.
C17_FetcherNeverFails ==
    \A r \in RunIds :
        \A k \in ExecsOf(r, "IssueContextFetcherStage") :
            LET before == Exec(r, k).ctx_in
                after == Exec(r, k).res.context
            IN  /\ ~Exec(r, k).res.should_stop
                /\ Exec(r, k).res.success
                /\ Exec(r, k).res.error = NoError
                /\ \/ after = before
                   \/ /\ before.webhook_payload.noteable_type = "Issue"
                      /\ Exec(r, k).calls # <<>>
                      /\ after = [before EXCEPT
                                    !.metadata =
                                       Put(before.metadata, "issue_context_path",
                                           <<before.local_context_path, IssueFile>>)]

\* the event names a revision to check out: the head of a merge request,
\* or the default branch of an issue thread
HasRevision(payload) ==
    \/ payload.noteable_type = "MergeRequest" /\ payload.head_sha # None
    \/ payload.noteable_type = "Issue"

\* run r is about to execute ContextBuilderStage: whatever directory
\* mkdtemp allocates, when the clone URL is absent, the clone fails or the
\* checkout of the event's revision fails, the stage hands back a failure
\* whose context names the allocated directory; and otherwise it goes on
BuilderFailsWhenItMust(r) ==
    \A d \in TmpNames \ fs, clone_ok \in BOOLEAN, checkout_ok \in BOOLEAN :
        LET payload == ctx[r].webhook_payload
            out == ContextBuilder_execute(ctx[r], GITLAB_PAT, d, clone_ok, checkout_ok)
            must == \/ payload.git_http_url = <<>>
                    \/ ~clone_ok
                    \/ HasRevision(payload) /\ ~checkout_ok
        IN  /\ out.mkdirs = {d}
            /\ out.res.context.local_context_path = d
            /\ must => /\ out.res.should_stop
                       /\ ~out.res.success
                       /\ out.res.error # NoError
            /\ payload.git_http_url = <<>> => out.res.error.type = "ValueError"
            /\ ~must => /\ ~out.res.should_stop
                        /\ out.res.success
                        /\ out.res.error = NoError

\* C18: when the clone URL is absent from the event, or the clone or the
\* checkout fails, ContextBuilderStage yields should_stop true, success
\* false and an error; it is then the last stage the run executes, the run
\* returns that failure, and by the time execute has returned the
\* directory allocated for the run is removed.
C18_BuilderFailureIsFatal ==
    \A r \in RunIds :
        /\ AtStage(r, "ContextBuilderStage") => BuilderFailsWhenItMust(r)
        /\ \A k \in ExecsOf(r, "ContextBuilderStage") :
              Exec(r, k).res.error # NoError =>
                  /\ Exec(r, k).res.should_stop
                  /\ ~Exec(r, k).res.success
                  /\ k = Len(trace[r])
                  /\ pc[r] \in {"finally", "returned"}
                  /\ ~result[r].success
                  /\ result[r].error = Exec(r, k).res.error
                  /\ pc[r] = "finally" => WorkspacesOf(r) \subseteq fs
                  /\ Returned(r) => (WorkspacesOf(r) \cap fs = {} /\ fs = {})

\* a run whose checkout failed after the clone has returned, with its
\* directory allocated and removed and stages left unexecuted
C18_Witness ==
    \E r \in RunIds :
        \E k \in ExecsOf(r, "ContextBuilderStage") :
            /\ Returned(r)
            /\ Exec(r, k).res.error.type = "CalledProcessError"
            /\ \E j \in 1..Len(Exec(r, k).calls) : Exec(r, k).calls[j].op = "git checkout"
            /\ WorkspacesOf(r) # {}
            /\ fs = {}
            /\ Len(trace[r]) < Len(pipeline[r].stages)

(***************************************************************************)
(* Properties of the credential.                                           *)
(***************************************************************************)
\* the error records run r has written to the log: one of Stage.execute and
\* one of Pipeline.execute for each stage result that carries an error
ErrorLogsOf(r) ==
    UNION { { StageFailedLog(Exec(r, k).stage.cls, Exec(r, k).res.error),
              PipelineStoppedLog(pipeline[r].name, Exec(r, k).res.error) } :
            k \in {j \in 1..Len(trace[r]) : Exec(r, j).res.error # NoError} }

\* the text holds the credential
Mentions(t, credential) == \E i \in 1..Len(t) : t[i] = credential

\* C19: with a credential configured, the credential occurs in no error
\* record of the log, in no recorded pipeline error text and in no posted
\* comment of any run, whichever way the run ends.
C19_CredentialNeverLeaks ==
    GITLAB_PAT # "" =>
        /\ \A r \in RunIds :
              /\ \A rec \in ErrorLogsOf(r) : ~Mentions(rec, GITLAB_PAT)
              /\ (pc[r] # "idle" /\ "pipeline_error" \in DOMAIN ctx[r].metadata) =>
                    ~Mentions(ctx[r].metadata["pipeline_error"], GITLAB_PAT)
        /\ \A k \in 1..Len(notes) : ~Mentions(notes[k].body, GITLAB_PAT)

(***************************************************************************)
(* Properties of the command definitions.                                  *)
(***************************************************************************)
\* get_pipeline_for_command has just returned the pipeline of a registered
\* command
ResolvedRegistered ==
    /\ resolved # NotResolved
    /\ resolved.name \in {"oc_review", "oc_ask", "oc_test"}

WellFormedResult(res) ==
    /\ ~res.success => res.should_stop
    /\ res.error # NoError => ~res.success

\* C21: every StageResult of a run, those the stages hand back through
\* Stage.execute and the one Pipeline.execute returns, has should_stop true
\* when success is false, and success false when it carries an error.
C21_ResultsWellFormed ==
    \A r \in RunIds :
        /\ \A k \in 1..Len(trace[r]) : WellFormedResult(Exec(r, k).res)
        /\ result[r] # NoResult => WellFormedResult(result[r])

\* a run has returned a result with an error, and so with success false
\* and should_stop true
C21_Witness ==
    \E r \in RunIds :
        /\ Returned(r)
        /\ result[r].error # NoError
        /\ ~result[r].success
        /\ result[r].should_stop
        /\ Exec(r, Len(trace[r])).res.error # NoError

(***************************************************************************)
(* Properties of the order of the comments.                                *)
(***************************************************************************)
\* the requests run r made to the comment collaborator, in order
PostCallsOf(r) ==
    LET calls == SelectSeq(CallsOf(r), LAMBDA c : c.op = "post_gitlab_note")
    IN  [k \in 1..Len(calls) |-> calls[k].arg]

\* run r has returned after every stage of its pipeline ran and succeeded
AllSucceeded(r) ==
    /\ Returned(r)
    /\ Len(trace[r]) = Len(pipeline[r].stages)
    /\ \A k \in 1..Len(trace[r]) : Exec(r, k).res.success /\ ~Exec(r, k).res.should_stop

\* the collaborator posted both comments run r asked for
BothPosted(r) ==
    /\ Exec(r, 1).posts # <<>>
    /\ Exec(r, Len(trace[r])).posts # <<>>

\* in no run is a result or failure comment asked for before the run's
\* request for the acknowledgement
AckAttemptFirst ==
    \A r \in RunIds :
        \A j \in 1..Len(PostCallsOf(r)) :
            PostCallsOf(r)[j] # "ack" =>
                \E i \in 1..(j - 1) : PostCallsOf(r)[i] = "ack"

\* the result comments of run r hold the agent's reply
ResultHoldsReply(r) ==
    \A k \in 1..Len(NotesOf(r)) :
        KindOf(NotesOf(r)[k].body) = "result" =>
            /\ ctx[r].agent_result # NoAgentResult
            /\ NotesOf(r)[k].body = ResultHeader \o ctx[r].agent_result.content

\* C22 as amended: in a run where every stage succeeds the collaborator is
\* asked for exactly one acknowledgement and then exactly one result
\* comment; each is posted at most once, the result comment holds the
\* agent's reply, and when the collaborator posts both the thread shows the
\* acknowledgement strictly before the result; in no run is a result or
\* failure comment asked for before the acknowledgement.
C22_AckThenResult ==
    /\ AckAttemptFirst
    /\ \A r \in RunIds :
          AllSucceeded(r) =>
              /\ PostCallsOf(r) = <<"ack", "result">>
              /\ KindsOf(r) \in {<<>>, <<"ack">>, <<"result">>, <<"ack", "result">>}
              /\ ResultHoldsReply(r)
              /\ BothPosted(r) =>
                    /\ KindsOf(r) = <<"ack", "result">>
                    /\ NotesOf(r)[1].id < NotesOf(r)[2].id

\* a run in which every stage succeeded has posted its acknowledgement and
\* then its result
C22_Witness ==
    \E r \in RunIds :
        /\ AllSucceeded(r)
        /\ BothPosted(r)
        /\ KindsOf(r) = <<"ack", "result">>

\* C22 as claimed: in a run where every stage succeeds exactly one
\* acknowledgement and exactly one result comment holding the agent's reply
\* are posted, the acknowledgement first; in no run is a result or failure
\* comment asked for before the acknowledgement.
C22_ExactlyOneEachPosted ==
    /\ AckAttemptFirst
    /\ \A r \in RunIds :
          AllSucceeded(r) =>
              /\ KindsOf(r) = <<"ack", "result">>
              /\ ResultHoldsReply(r)

(***************************************************************************)
(* Properties of the address of the comments.                              *)
(***************************************************************************)
\* the thread item the event is about, as the claim names it
ThreadItemOf(payload) ==
    IF payload.noteable_type = "MergeRequest" THEN payload.mr_iid
    ELSE IF payload.noteable_type = "Issue" THEN payload.issue_iid
    ELSE payload.noteable_id

\* events with every combination of thread type and present or absent ids
AddressedPayloads ==
    { [noteable_type |-> t, mr_iid |-> m, issue_iid |-> i, noteable_id |-> n] :
        t \in NoteableTypes \cup {None}, m \in {None, "42"},
        i \in {None, "7"}, n \in {None, "99"} }

\* C23: the gate and the result-publication stage compute the same thread
\* item from every event, the merge request's iid on a merge-request
\* thread, the issue's iid on an issue thread and the comment's
\* noteable_id otherwise; and all comments of a run carry the project id,
\* the thread type and that thread item of the run's event.
C23_SameThreadItem ==
    /\ \A p \in AddressedPayloads :
          /\ get_noteable_iid(p) = NoteUpdater_get_noteable_iid(p)
          /\ get_noteable_iid(p) = ThreadItemOf(p)
    /\ \A r \in RunIds :
          \A k \in 1..Len(NotesOf(r)) :
              LET payload == ctx[r].webhook_payload
                  n == NotesOf(r)[k]
              IN  /\ n.project_id = payload.project_id
                  /\ n.noteable_type = payload.noteable_type
                  /\ n.noteable_iid = ThreadItemOf(payload)

\* a run on an issue thread has posted its acknowledgement and its result,
\* both on the issue of the event
C23_Witness ==
    \E r \in RunIds :
        /\ Returned(r)
        /\ ctx[r].webhook_payload.noteable_type = "Issue"
        /\ KindsOf(r) = <<"ack", "result">>
        /\ NotesOf(r)[1].noteable_iid = "7"
        /\ NotesOf(r)[2].noteable_iid = "7"

(***************************************************************************)
(* Properties of the checkout.                                             *)
(***************************************************************************)
\* the git checkout commands among the calls of a stage
CheckoutsIn(calls) == SelectSeq(calls, LAMBDA c : c.op = "git checkout")

\* the checkout the precedence gives: the commit id when the snapshot has
\* one, else the branch when it has one, else none
ExpectedCheckouts(snap) ==
    IF Get(snap, "sha", None) # None
    THEN <<Call("git checkout", snap["sha"])>>
    ELSE IF Get(snap, "branch", None) # None
    THEN <<Call("git checkout", snap["branch"])>>
    ELSE <<>>

\* the dict with "sha" s and "branch" b, a key being left out when missing
Descr(s, b) ==
    LET d1 == IF s = "missing" THEN EmptyDict ELSE Put(EmptyDict, "sha", s)
    IN  IF b = "missing" THEN d1 ELSE Put(d1, "branch", b)

\* snapshot descriptors with the commit id and the branch each missing,
\* None or set
SnapshotDescriptors ==
    { Descr(s, b) : s \in {"missing", None, "abc123"},
                    b \in {"missing", None, "main"} }

\* C24: after a successful clone ContextBuilderStage runs at most one
\* checkout, chosen by precedence: the snapshot's commit id when it has
\* one, whatever its branch; else its branch when it has one; else no
\* checkout, the clone staying at its default branch.  The first conjunct
\* gives the builder that is about to run every snapshot descriptor, the
\* second reads the checkouts the runs made.
C24_CheckoutPrecedence ==
    /\ \A r \in RunIds :
          AtStage(r, "ContextBuilderStage") /\ ctx[r].webhook_payload.git_http_url # <<>> =>
              \A snap \in SnapshotDescriptors, d \in TmpNames \ fs,
                 checkout_ok \in BOOLEAN :
                  LET context == [ctx[r] EXCEPT !.code_snapshot = snap]
                      out == ContextBuilder_execute(context, GITLAB_PAT, d, TRUE,
                                                    checkout_ok)
                  IN  CheckoutsIn(out.calls) = ExpectedCheckouts(snap)
    /\ \A r \in RunIds :
          \A k \in ExecsOf(r, "ContextBuilderStage") :
              LET e == Exec(r, k)
              IN  /\ Len(CheckoutsIn(e.calls)) <= 1
                  /\ CheckoutsIn(e.calls) # <<>> =>
                        CheckoutsIn(e.calls) = ExpectedCheckouts(e.ctx_in.code_snapshot)
                  /\ e.res.success =>
                        CheckoutsIn(e.calls) = ExpectedCheckouts(e.ctx_in.code_snapshot)

\* one run's builder has checked out the branch of an issue's snapshot, the
\* snapshot having no commit id
C24_Witness ==
    \E r \in RunIds :
        \E k \in ExecsOf(r, "ContextBuilderStage") :
            /\ Exec(r, k).res.success
            /\ Exec(r, k).ctx_in.code_snapshot = [sha |-> None, branch |-> "main"]
            /\ CheckoutsIn(Exec(r, k).calls) = <<Call("git checkout", "main")>>

(***************************************************************************)
(* Properties of the revision descriptor.                                  *)
(***************************************************************************)
\* C25: after SnapshotResolverStage has run on a merge-request or issue
\* comment event, at least one of the commit id and the branch is present
\* in code_snapshot; both are absent only when the thread type is neither.
C25_RevisionPresent ==
    \A r \in RunIds :
        \A k \in ExecsOf(r, "SnapshotResolverStage") :
            LET payload == Exec(r, k).ctx_in.webhook_payload
                snap == Exec(r, k).res.context.code_snapshot
            IN  payload.noteable_type \in {"MergeRequest", "Issue"} =>
                    \/ Get(snap, "sha", None) # None
                    \/ Get(snap, "branch", None) # None

(***************************************************************************)
(* Properties of the agent invocation stage.                               *)
(***************************************************************************)
\* the events of the stream whose type is 'text', in stream order
TextEventsOf(stdout) ==
    SelectSeq(stdout, LAMBDA l : l.kind = "object" /\ l.type = "text")

RECURSIVE ConcatTexts(_)
\* the texts of the events, one after the other, with no separator
ConcatTexts(events) ==
    IF events = <<>> THEN <<>>
    ELSE Head(events).text \o ConcatTexts(Tail(events))

\* the streams whose lines are JSON objects or no JSON at all
EventStreams == {o \in Stdouts : \A i \in 1..Len(o) : o[i].kind \in {"object", "invalid"}}

\* the stages of run r that changed agent_result
SettersOf(r) ==
    {k \in 1..Len(trace[r]) : Exec(r, k).res.context.agent_result # Exec(r, k).ctx_in.agent_result}

FailureCodes == {1, 2}

\* C27: when the agent process exits with a non-zero status the stage
\* yields should_stop true and success false with an error that carries the
\* agent's diagnostic text, leaves agent_result unset and writes no file;
\* the stage is the last the run executes, and the run returns that error,
\* recorded in metadata['pipeline_error'].
C27_AgentFailureIsFatal ==
    \A r \in RunIds :
        /\ AtStage(r, "OpencodeIntegrationStage") /\ ctx[r].local_context_path # None =>
              \A rc \in FailureCodes, o \in Stdouts, e \in Stderrs :
                  LET out == OpencodeIntegration_execute(ctx[r], rc, o, e)
                  IN  /\ out.res.should_stop
                      /\ ~out.res.success
                      /\ out.res.error # NoError
                      /\ out.res.error.type = "RuntimeError"
                      /\ Contains(out.res.error.msg, Strip(e))
                      /\ out.res.context.agent_result = NoAgentResult
                      /\ out.writes = {}
        /\ \A k \in ExecsOf(r, "OpencodeIntegrationStage") :
              Exec(r, k).res.error # NoError =>
                  /\ Exec(r, k).res.should_stop
                  /\ ~Exec(r, k).res.success
                  /\ Exec(r, k).res.context.agent_result = NoAgentResult
                  /\ k = Len(trace[r])
                  /\ pc[r] \in {"finally", "returned"}
                  /\ ~result[r].success
                  /\ result[r].error = Exec(r, k).res.error
                  /\ Get(result[r].context.metadata, "pipeline_error", None)
                        = Str(Exec(r, k).res.error)

\* a run has returned after its agent exited with a non-zero status and the
\* diagnostic 'boom'
C27_Witness ==
    \E r \in RunIds :
        \E k \in ExecsOf(r, "OpencodeIntegrationStage") :
            /\ Returned(r)
            /\ Exec(r, k).res.error # NoError
            /\ Exec(r, k).res.error.msg = <<"opencode run failed: ", "boom">>
            /\ result[r].context.agent_result = NoAgentResult
            /\ Len(trace[r]) < Len(pipeline[r].stages)

(***************************************************************************)
(* Properties of the order of the stages.                                  *)
(***************************************************************************)
AgentStages == {"AgentExecutorStage", "OpencodeIntegrationStage"}

\* the positions of the stages of the classes in a stage list
PositionsOf(stages, classes) == {i \in 1..Len(stages) : stages[i].cls \in classes}

\* gate first, publication last, resolver before builder before agent,
\* each of them once
WellOrdered(stages) ==
    LET S == PositionsOf(stages, {"SnapshotResolverStage"})
        B == PositionsOf(stages, {"ContextBuilderStage"})
        A == PositionsOf(stages, AgentStages)
    IN  /\ PositionsOf(stages, {"HookResolverStage"}) = {1}
        /\ PositionsOf(stages, {"NoteUpdaterStage"}) = {Len(stages)}
        /\ Cardinality(S) = 1
        /\ Cardinality(B) = 1
        /\ Cardinality(A) = 1
        /\ \A s \in S, b \in B, a \in A : s < b /\ b < a

\* the gate of run r has accepted the event
GateAccepted(r) ==
    /\ trace[r] # <<>>
    /\ Exec(r, 1).stage.cls = "HookResolverStage"
    /\ ~Exec(r, 1).res.should_stop

\* C28: in the pipeline of every registered command HookResolverStage is
\* the first stage and NoteUpdaterStage the last, with the resolver before
\* the builder and the builder before the agent stage; every run executes
\* its stages in that order, and no workspace is created, no agent invoked
\* and no result posted before the gate has accepted the event.
C28_GateFirstPublicationLast ==
    /\ \A i \in 1..Len(COMMANDS) : WellOrdered(COMMANDS[i].stages)
    /\ \A r \in RunIds :
          /\ pc[r] # "idle" => WellOrdered(pipeline[r].stages)
          /\ WorkspacesOf(r) # {} => GateAccepted(r)
          /\ \A k \in 1..Len(trace[r]) :
                LET e == Exec(r, k)
                IN  /\ e.stage = pipeline[r].stages[k]
                    /\ e.stage.cls # "HookResolverStage" => GateAccepted(r) /\ k > 1
                    /\ e.stage.cls = "HookResolverStage" =>
                          /\ \A j \in 1..Len(e.calls) : e.calls[j].op \in {"detect_command", "post_gitlab_note"}
                          /\ \A j \in 1..Len(e.posts) : KindOf(e.posts[j].body) = "ack"

\* a run has executed every stage of its pipeline, its workspace created
\* by the third stage and its result posted by the last
C28_Witness ==
    \E r \in RunIds :
        /\ Returned(r)
        /\ Len(trace[r]) = Len(pipeline[r].stages)
        /\ GateAccepted(r)
        /\ \E j \in 1..Len(Exec(r, 3).calls) : Exec(r, 3).calls[j].op = "mkdtemp"
        /\ Exec(r, Len(trace[r])).posts # <<>>
        /\ KindOf(Exec(r, Len(trace[r])).posts[1].body) = "result"

(***************************************************************************)
(* Properties of the conversion of exceptions.                             *)
(***************************************************************************)
\* the context object a stage was given, with what the stage wrote to it
\* before it raised: ContextBuilderStage stores the directory mkdtemp
\* returned, the other stages write nothing before their raises
ContextAtRaise(e) ==
    IF /\ e.stage.cls = "ContextBuilderStage"
       /\ e.calls # <<>>
       /\ e.calls[1].op = "mkdtemp"
       /\ e.calls[1].arg # None
    THEN [e.ctx_in EXCEPT !.local_context_path = e.calls[1].arg]
    ELSE e.ctx_in

\* C29: an exception raised inside a stage is converted by Stage.execute
\* into a result with should_stop true, success false, the exception as
\* error and, as context, the object the stage was given with its in-place
\* changes; the stage is not retried: it has run once, made each of its
\* external calls once, and is the last stage of the run, whose result
\* carries the same error.
C29_ExceptionBecomesFailure ==
    \A r \in RunIds :
        \A k \in 1..Len(trace[r]) :
            LET e == Exec(r, k)
            IN  e.res.error # NoError =>
                    /\ e.res.should_stop
                    /\ ~e.res.success
                    /\ e.res.error.type # None
                    /\ e.res.context = ContextAtRaise(e)
                    /\ ExecsOf(r, e.stage.cls) = {k}
                    /\ \A i, j \in 1..Len(e.calls) : e.calls[i] = e.calls[j] => i = j
                    /\ k = Len(trace[r])
                    /\ pc[r] \in {"finally", "returned"}
                    /\ result[r].error = e.res.error
                    /\ result[r].should_stop

\* a run has returned after its builder raised on a failed clone: the
\* result's context is the stage's context with the allocated directory
C29_Witness ==
    \E r \in RunIds :
        \E k \in ExecsOf(r, "ContextBuilderStage") :
            /\ Returned(r)
            /\ Exec(r, k).res.error # NoError
            /\ Exec(r, k).res.error.type = "CalledProcessError"
            /\ Len(Exec(r, k).calls) = 2
            /\ Exec(r, k).res.context.local_context_path \in TmpNames
            /\ Exec(r, k).ctx_in.local_context_path = None

(***************************************************************************)
(* Properties of termination.                                              *)
(***************************************************************************)
\* Pipeline.execute has been called for run r and has not returned
Started(r) == pc[r] \in {"running", "finally"}

\* execute has returned a result after at most one pass over the stage
\* list, each stage executed at most once and in order, and no directory
\* the run created is left
Terminated(r) ==
    /\ Returned(r)
    /\ Len(trace[r]) <= Len(pipeline[r].stages)
    /\ \A k \in 1..Len(trace[r]) :
          /\ Exec(r, k).i = k
          /\ Exec(r, k).stage = pipeline[r].stages[k]
    /\ result[r].context = ctx[r]
    /\ WorkspacesOf(r) \cap fs = {}

\* C30: every external call returning, every started run eventually
\* terminates: Pipeline.execute returns a result after at most one pass
\* over its finite stage list, and its cleanup has run by then.
C30_RunsTerminate == \A r \in RunIds : Started(r) ~> Terminated(r)

\* a run has terminated after all six stages of oc_test, its workspace
\* created and removed
C30_Witness ==
    \E r \in RunIds :
        /\ Terminated(r)
        /\ Len(trace[r]) = 6
        /\ WorkspacesOf(r) # {}
        /\ fs = {}

(***************************************************************************)
(* Properties of runs on one thread.                                       *)
(***************************************************************************)
\* the comments on the thread, each as the run that posted it and its kind
ThreadLog == [k \in 1..Len(notes) |-> <<notes[k].run, KindOf(notes[k].body)>>]

\* C31: no order is enforced across the runs triggered on one thread: a
\* run whose execute has been called and has not returned can always take
\* its next step, the stage at hand or the finally block, whatever the
\* other runs have done or not done; and all comments land on that thread.
C31_NoCrossRunOrder ==
    /\ \A r \in RunIds : pc[r] \in {"running", "finally"} => ENABLED RunStep(r)
    /\ \A k \in 1..Len(notes) :
          /\ notes[k].noteable_type = "MergeRequest"
          /\ notes[k].noteable_iid = ThreadOf(1)

\* both acknowledgements are on the thread before either result, and the
\* result of the run triggered later precedes the result of the earlier
C31_Witness ==
    ThreadLog = << <<1, "ack">>, <<2, "ack">>, <<2, "result">>, <<1, "result">> >>

(***************************************************************************)
(* Properties of the execution of the publication stage.                   *)
(***************************************************************************)
\* the stages run r executed other than NoteUpdaterStage
OthersOf(r) == {k \in 1..Len(trace[r]) : Exec(r, k).stage.cls # "NoteUpdaterStage"}

====
